---- MODULE Spec2Model ----
(***************************************************************************)
(* Vehicle Signal Manager (src/vsm.py): rule tree, dependency index, State *)
(* store, dispatcher, monitor timers, sequence gate and emitter.           *)
(*                                                                         *)
(* Text is modelled as tuples of one-character strings, so that typing of  *)
(* received values, the undotting of identifiers and the sorting of the    *)
(* State dump are computed, not assumed.                                   *)
(*                                                                         *)
(* Threads: the main thread (run loop), one thread per threading.Timer     *)
(* and one thread per delayed emit.  The source takes no lock, so the      *)
(* steps of different threads interleave.  One step is one statement of    *)
(* the source that touches shared data; statements that touch only data    *)
(* of the running thread are joined to the step before them, and an        *)
(* `if x: x.cancel(); x = None` is one step.                               *)
(***************************************************************************)
EXTENDS Integers, Sequences, FiniteSets, TLC

\* ------------------------------------------------------------------ bounds
MaxRecv == 3      \* messages the IPC source delivers in one run
MaxTime == 2      \* last value of the millisecond clock

\* --------------------------------------------------------------- constants
NODE_CONDITION == "condition"
NODE_CONDITION_POS == 1     \* children[0] of the source, 1-based here
NODE_EMIT == "emit"
NODE_START == "start"
NODE_STOP == "stop"
NODE_PARALLEL == "parallel"
NODE_SEQUENCE == "sequence"
NODE_ROOT == "root"
NODE_BLOCK == "block"
WRAPPER_KEYWORDS == {NODE_PARALLEL, NODE_SEQUENCE}
SIGNAL_PREFIX_OUTGOING == "<"
SIGNAL_PREFIX_INCOMING == ">"
None == 0                   \* None in a slot that holds a node or a timer
NoneText == <<"<None>">>    \* None in a slot that holds text

\* -------------------------------------------------------------------- text
\* Code points of the characters that occur in signal names and in values.
ChrCode(ch) ==
  CASE ch = "\"" -> 34 [] ch = "'" -> 39 [] ch = "." -> 46
    [] ch = "0" -> 48 [] ch = "1" -> 49 [] ch = "2" -> 50 [] ch = "3" -> 51
    [] ch = "4" -> 52 [] ch = "5" -> 53 [] ch = "6" -> 54 [] ch = "7" -> 55
    [] ch = "8" -> 56 [] ch = "9" -> 57
    [] ch = "F" -> 70 [] ch = "T" -> 84 [] ch = "_" -> 95
    [] ch = "a" -> 97 [] ch = "b" -> 98 [] ch = "c" -> 99 [] ch = "d" -> 100
    [] ch = "e" -> 101 [] ch = "f" -> 102 [] ch = "g" -> 103
    [] ch = "i" -> 105 [] ch = "k" -> 107 [] ch = "l" -> 108
    [] ch = "n" -> 110 [] ch = "o" -> 111 [] ch = "p" -> 112
    [] ch = "q" -> 113 [] ch = "r" -> 114 [] ch = "s" -> 115
    [] ch = "t" -> 116 [] ch = "u" -> 117 [] ch = "v" -> 118
    [] ch = "w" -> 119 [] ch = "x" -> 120
    [] OTHER -> 63

Digits == {"0", "1", "2", "3", "4", "5", "6", "7", "8", "9"}

\* Python's str < str: lexicographic by code point.
RECURSIVE StrLess(_, _)
StrLess(a, b) ==
  IF b = <<>> THEN FALSE
  ELSE IF a = <<>> THEN TRUE
  ELSE IF ChrCode(Head(a)) # ChrCode(Head(b))
       THEN ChrCode(Head(a)) < ChrCode(Head(b))
  ELSE StrLess(Tail(a), Tail(b))

\* k.replace('.', '_')
Undot(name) == [i \in 1..Len(name) |-> IF name[i] = "." THEN "_" ELSE name[i]]

\* ------------------------------------------------------------------ values
\* A value of the State store is a tagged variant.
VStr(s) == [t |-> "str", v |-> s]
VBool(b) == [t |-> "bool", v |-> b]
VInt(n) == [t |-> "int", v |-> n]
\* a float with one fractional digit is kept in tenths
VFloat(tenths) == [t |-> "float", v |-> tenths]

TrueText == <<"T", "r", "u", "e">>
FalseText == <<"F", "a", "l", "s", "e">>

\* Numeric value in tenths of bool, int and float (bool is an int in Python).
Tenths(x) ==
  CASE x.t = "bool" -> (IF x.v THEN 10 ELSE 0)
    [] x.t = "int" -> 10 * x.v
    [] x.t = "float" -> x.v

\* Python's ==
PyEq(a, b) ==
  IF a.t = "str" \/ b.t = "str" THEN a.t = b.t /\ a.v = b.v
  ELSE Tenths(a) = Tenths(b)

\* Python's truth value of an object
Truthy(x) ==
  CASE x.t = "bool" -> x.v
    [] x.t = "str" -> x.v # <<>>
    [] OTHER -> x.v # 0

\* str.find(ch) + 1
FirstIndex(text, ch) ==
  IF \E i \in 1..Len(text) : text[i] = ch
  THEN CHOOSE i \in 1..Len(text) : text[i] = ch /\ \A j \in 1..(i - 1) : text[j] # ch
  ELSE 0

\* str.split(sep)
RECURSIVE split(_, _)
split(text, sep) ==
  IF FirstIndex(text, sep) = 0 THEN <<text>>
  ELSE <<SubSeq(text, 1, FirstIndex(text, sep) - 1)>>
         \o split(SubSeq(text, FirstIndex(text, sep) + 1, Len(text)), sep)

\* ------------------------------------------------- typing of received text
is_string(value) ==
  /\ Len(value) > 2
  /\ \/ value[1] = "\"" /\ value[Len(value)] = "\""
     \/ value[1] = "'" /\ value[Len(value)] = "'"

is_bool(value) ==
  value \in {<<"t", "r", "u", "e">>, TrueText, <<"f", "a", "l", "s", "e">>, FalseText}

RECURSIVE DigitsToInt(_)
DigitsToInt(s) ==
  IF s = <<>> THEN 0
  ELSE 10 * DigitsToInt(SubSeq(s, 1, Len(s) - 1)) + (ChrCode(s[Len(s)]) - 48)

isnumeric(value) == value # <<>> /\ \A i \in 1..Len(value) : value[i] \in Digits

DotPos(value) == {i \in 1..Len(value) : value[i] = "."}

\* float(value) of a text that holds a '.': digits, one '.', at most one
\* fractional digit (the received texts of this model have no more).
FloatParses(value) ==
  /\ Cardinality(DotPos(value)) = 1
  /\ LET d == CHOOSE i \in DotPos(value) : TRUE
     IN /\ isnumeric(SubSeq(value, 1, d - 1) \o SubSeq(value, d + 1, Len(value)))
        /\ Len(value) - d <= 1

FloatTenths(value) ==
  LET d == CHOOSE i \in DotPos(value) : TRUE
  IN 10 * DigitsToInt(SubSeq(value, 1, d - 1))
       + DigitsToInt(SubSeq(value, d + 1, Len(value)))

\* process(): the try block that converts the text; "ValueError" when the
\* text is of none of the four types (or is missing).
ValueError == [t |-> "ValueError"]
ConvertValue(value) ==
  IF value = NoneText THEN ValueError
  ELSE IF is_string(value) THEN VStr(SubSeq(value, 2, Len(value) - 1))
  ELSE IF is_bool(value) THEN VBool(value \in {<<"t", "r", "u", "e">>, TrueText})
  ELSE IF DotPos(value) # {}
       THEN (IF FloatParses(value) THEN VFloat(FloatTenths(value)) ELSE ValueError)
  ELSE IF isnumeric(value) THEN VInt(DigitsToInt(value))
  ELSE ValueError

\* ------------------------------------------------------------- expressions
\* A condition is kept as the syntax tree ast.parse() gives.
Name(id) == [op |-> "name", id |-> id]
Const(v) == [op |-> "const", val |-> v]
Bin(op, l, r) == [op |-> op, l |-> l, r |-> r]
Not(e) == [op |-> "not", e |-> e]

\* ParseIdentifiers: the identifiers of the expression, in visiting order,
\* one entry per occurrence.
RECURSIVE ParseIdentifiers(_)
ParseIdentifiers(e) ==
  CASE e.op = "name" -> <<e.id>>
    [] e.op = "const" -> <<>>
    [] e.op = "not" -> ParseIdentifiers(e.e)
    [] OTHER -> ParseIdentifiers(e.l) \o ParseIdentifiers(e.r)

\* State._undot_variables: later entries of the dict win a collision.
_undot_variables(vars) ==
  LET keys == {Undot(vars[i][1]) : i \in 1..Len(vars)}
      last(k) == CHOOSE i \in 1..Len(vars) :
                   /\ Undot(vars[i][1]) = k
                   /\ \A j \in 1..Len(vars) : Undot(vars[j][1]) = k => j <= i
  IN [k \in keys |-> vars[last(k)][2]]

Ok(v) == [k |-> "ok", v |-> v]
NameError == [k |-> "NameError"]
TypeError == [k |-> "TypeError"]

Ordered(op, a, b) ==
  IF a.t = "str" /\ b.t = "str"
  THEN Ok(VBool(CASE op = "lt" -> StrLess(a.v, b.v)
                  [] op = "gt" -> StrLess(b.v, a.v)
                  [] op = "le" -> ~StrLess(b.v, a.v)
                  [] op = "ge" -> ~StrLess(a.v, b.v)))
  ELSE IF a.t = "str" \/ b.t = "str" THEN TypeError
  ELSE Ok(VBool(CASE op = "lt" -> Tenths(a) < Tenths(b)
                  [] op = "gt" -> Tenths(a) > Tenths(b)
                  [] op = "le" -> Tenths(a) <= Tenths(b)
                  [] op = "ge" -> Tenths(a) >= Tenths(b)))

\* Evaluation of the compiled expression in the undotted namespace `env`,
\* as Python evaluates it: left to right, and/or short-circuit.
RECURSIVE Eval(_, _)
Eval(e, env) ==
  CASE e.op = "name" ->
         (IF Undot(e.id) \in DOMAIN env THEN Ok(env[Undot(e.id)]) ELSE NameError)
    [] e.op = "const" -> Ok(e.val)
    [] e.op = "not" ->
         (LET x == Eval(e.e, env)
          IN IF x.k = "ok" THEN Ok(VBool(~Truthy(x.v))) ELSE x)
    [] e.op = "and" ->
         (LET x == Eval(e.l, env)
          IN IF x.k # "ok" THEN x
             ELSE IF ~Truthy(x.v) THEN x ELSE Eval(e.r, env))
    [] e.op = "or" ->
         (LET x == Eval(e.l, env)
          IN IF x.k # "ok" THEN x
             ELSE IF Truthy(x.v) THEN x ELSE Eval(e.r, env))
    [] OTHER ->
         (LET x == Eval(e.l, env)
              y == Eval(e.r, env)
          IN IF x.k # "ok" THEN x
             ELSE IF y.k # "ok" THEN y
             ELSE IF e.op = "eq" THEN Ok(VBool(PyEq(x.v, y.v)))
             ELSE IF e.op = "ne" THEN Ok(VBool(~PyEq(x.v, y.v)))
             ELSE Ordered(e.op, x.v, y.v))

\* A condition of a rules file that is given as its text: the sequence of its
\* tokens, which are names, constants and the symbols Op("("), Op("=="), ...
\* In a text, str.find and str.split look for the one token Op("^^").
Op(symbol) == [op |-> symbol]
Text(tokens) == [op |-> "text", tokens |-> tokens]
XOR == Op("^^")

\* orig_condition.find('^^') >= 0
find_xor(condition) ==
  condition.op = "text" /\ FirstIndex(condition.tokens, XOR) # 0

\* A variant of _handle_xor_condition with the fault of a substitution that
\* leaves out the parentheses, `A != B`: C20 does not hold of it.
_handle_xor_condition_ungrouped(condition) ==
  LET parts == split(condition.tokens, XOR)
  IN IF Len(parts) # 2 THEN condition
     ELSE Text(parts[1] \o <<Op("!=")>> \o parts[2])

\* _handle_xor_condition: "({}) != ({})" of the two sides of the one `^^`;
\* the text as it is when split('^^') does not give two parts.
_handle_xor_condition(condition) ==
  LET parts == split(condition.tokens, XOR)
  IN IF Len(parts) # 2 THEN condition
     ELSE Text(<<Op("(")>> \o parts[1] \o <<Op(")"), Op("!="), Op("(")>>
                 \o parts[2] \o <<Op(")")>>)

\* The comparison operators of Python and the name of each in a syntax tree.
CompOps ==
  [sym \in {"==", "!=", "<", ">", "<=", ">="} |->
     CASE sym = "==" -> "eq" [] sym = "!=" -> "ne" [] sym = "<" -> "lt"
       [] sym = ">" -> "gt" [] sym = "<=" -> "le" [] sym = ">=" -> "ge"]

\* ast.parse of the text of a condition, by Python's grammar:
\*   or_test: and_test ('or' and_test)*      and_test: not_test ('and' not_test)*
\*   not_test: 'not' not_test | comparison   comparison: atom (comp_op atom)*
\*   atom: NAME | constant | '(' or_test ')'
\* grammar(rule, tokens) gives the tree of what `rule` reads at the start of
\* the tokens, and the tokens that are left; the rules or_rest, and_rest and
\* comp_rest are the repetitions, and take what was read so far.  A chain
\* `a < b < c` is the tree of `a < b and b < c`, as Python evaluates it.
\* (What a call gives is bound as the one element of a set, so that it is
\* computed once.)
Is(tokens, symbol) == tokens # <<>> /\ Head(tokens).op = symbol
RECURSIVE grammar(_, _)
grammar(rule, x) ==
  CASE rule = "atom" ->
         (IF Is(x, "(")
          THEN CHOOSE out \in {[e |-> inner.e, rest |-> Tail(inner.rest)] :
                                 inner \in {grammar("or_test", Tail(x))}} : TRUE
          ELSE [e |-> Head(x), rest |-> Tail(x)])
    [] rule = "comp_rest" ->
         \* x: the tree `e` of the comparisons read, if any (`chained`), and
         \* their last operand `left`
         (IF x.rest # <<>> /\ Head(x.rest).op \in DOMAIN CompOps
          THEN CHOOSE out \in
                 {grammar("comp_rest",
                    [chained |-> TRUE,
                     e |-> IF x.chained
                           THEN Bin("and", x.e,
                                    Bin(CompOps[Head(x.rest).op], x.left, right.e))
                           ELSE Bin(CompOps[Head(x.rest).op], x.left, right.e),
                     left |-> right.e, rest |-> right.rest]) :
                    right \in {grammar("atom", Tail(x.rest))}} : TRUE
          ELSE [e |-> x.e, rest |-> x.rest])
    [] rule = "comparison" ->
         (CHOOSE out \in
            {grammar("comp_rest", [chained |-> FALSE, e |-> left.e, left |-> left.e,
                                   rest |-> left.rest]) :
               left \in {grammar("atom", x)}} : TRUE)
    [] rule = "not_test" ->
         (IF Is(x, "not")
          THEN CHOOSE out \in {[e |-> Not(operand.e), rest |-> operand.rest] :
                                 operand \in {grammar("not_test", Tail(x))}} : TRUE
          ELSE grammar("comparison", x))
    [] rule = "and_rest" ->
         (IF Is(x.rest, "and")
          THEN CHOOSE out \in
                 {grammar("and_rest", [e |-> Bin("and", x.e, right.e), rest |-> right.rest]) :
                    right \in {grammar("not_test", Tail(x.rest))}} : TRUE
          ELSE x)
    [] rule = "and_test" ->
         (CHOOSE out \in {grammar("and_rest", left) :
                            left \in {grammar("not_test", x)}} : TRUE)
    [] rule = "or_rest" ->
         (IF Is(x.rest, "or")
          THEN CHOOSE out \in
                 {grammar("or_rest", [e |-> Bin("or", x.e, right.e), rest |-> right.rest]) :
                    right \in {grammar("and_test", Tail(x.rest))}} : TRUE
          ELSE x)
    [] rule = "or_test" ->
         (CHOOSE out \in {grammar("or_rest", left) :
                            left \in {grammar("and_test", x)}} : TRUE)

\* ast.parse(condition).body[0]: of a text, its syntax tree; the conditions
\* that a rules file of this model gives as a tree are that tree.
ast_parse(condition) ==
  IF condition.op = "text" THEN grammar("or_test", condition.tokens).e ELSE condition

\* --------------------------------------------------------------- rule tree
\* TreeNode.__init__.  The tree is an arena: a sequence of nodes, a node's
\* identity is its index, `parent` and `children` hold indices.  The runtime
\* fields of a condition (condition_met, timers, monitor_init_time_ms) and
\* of a sequence (next_grandchild_index) are variables of the model.
TreeNode(node_type, value, start, stop, signals) ==
  [node_type |-> node_type, value |-> value, parent |-> None,
   children |-> <<>>, rule |-> None,
   start_time_ms |-> start, stop_time_ms |-> stop, signals |-> signals]

\* TreeNode.add_child: the child gets the next index of the arena.
add_child(tree, parent, child) ==
  Append([tree EXCEPT ![parent].children = Append(@, Len(tree) + 1)],
         [child EXCEPT !.parent = parent])

\* TreeNode.get_siblings
get_siblings(tree, n) ==
  IF tree[n].parent = None THEN <<>>
  ELSE SelectSeq(tree[tree[n].parent].children, LAMBDA x : x # n)

\* Concatenation of f(s[1]), f(s[2]), ...
RECURSIVE FlatMap(_, _)
FlatMap(f(_), s) == IF s = <<>> THEN <<>> ELSE f(Head(s)) \o FlatMap(f, Tail(s))

\* TreeNode.find_subconditions: it looks only into children[0] of a wrapper.
RECURSIVE find_subconditions(_, _)
find_subconditions(tree, n) ==
  IF tree[n].node_type # NODE_CONDITION THEN <<>>
  ELSE LET ofChild(c) ==
             IF tree[c].node_type = NODE_CONDITION
             THEN <<c>> \o find_subconditions(tree, c) ELSE <<>>
           ofSibling(w) ==
             IF tree[w].node_type \in WRAPPER_KEYWORDS
             THEN FlatMap(ofChild, tree[tree[w].children[1]].children)
             ELSE <<>>
       IN FlatMap(ofSibling, get_siblings(tree, n))

\* TreeNode._get_ancestor_conditions
RECURSIVE _get_ancestor_conditions(_, _)
_get_ancestor_conditions(tree, n) ==
  LET own == IF tree[n].node_type = NODE_CONDITION THEN <<n>> ELSE <<>>
      ofSibling(x) ==
        IF tree[x].node_type = NODE_CONDITION
        THEN _get_ancestor_conditions(tree, x) ELSE <<>>
      above ==
        IF tree[n].node_type # NODE_ROOT /\ tree[n].parent # None
        THEN IF tree[tree[n].parent].node_type \in WRAPPER_KEYWORDS
             THEN FlatMap(ofSibling, get_siblings(tree, tree[n].parent))
             ELSE _get_ancestor_conditions(tree, tree[n].parent)
        ELSE <<>>
  IN own \o above

\* list.remove(x): the first occurrence is taken out.
Remove(s, x) ==
  LET i == CHOOSE k \in 1..Len(s) : s[k] = x /\ \A j \in 1..(k - 1) : s[j] # x
  IN SubSeq(s, 1, i - 1) \o SubSeq(s, i + 1, Len(s))

\* The conditions of the other blocks of the wrapper that holds the block of n.
wrapper_siblings(tree, n) ==
  IF tree[n].parent = None \/ tree[tree[n].parent].parent = None THEN <<>>
  ELSE LET wrapper == tree[tree[n].parent].parent
           ofBlock(b) == SelectSeq(tree[b].children,
                                   LAMBDA c : tree[c].node_type = NODE_CONDITION /\ c # n)
       IN IF tree[wrapper].node_type \in WRAPPER_KEYWORDS
          THEN FlatMap(ofBlock, tree[wrapper].children) ELSE <<>>

\* A variant of get_ancestor_conditions with the fault of a walk that takes
\* the conditions next to n under its wrapper for ancestors: C15 does not
\* hold of it.
get_ancestor_conditions_and_siblings(tree, n) ==
  IF tree[n].node_type = NODE_CONDITION /\ tree[n].parent # None
  THEN Remove(_get_ancestor_conditions(tree, n), n) \o wrapper_siblings(tree, n)
  ELSE <<>>

\* A variant of get_ancestor_conditions that forgets `conditions.remove(self)`:
\* the node is listed among its own ancestors, and C30 does not hold of it.
get_ancestor_conditions_with_self(tree, n) ==
  IF tree[n].node_type = NODE_CONDITION /\ tree[n].parent # None
  THEN _get_ancestor_conditions(tree, n)
  ELSE <<>>

\* TreeNode.get_ancestor_conditions
get_ancestor_conditions(tree, n) ==
  IF tree[n].node_type = NODE_CONDITION /\ tree[n].parent # None
  THEN Remove(_get_ancestor_conditions(tree, n), n)
  ELSE <<>>

\* TreeNode.get_conditions_by_rule: children first, then the node itself.
RECURSIVE get_conditions_by_rule(_, _, _)
get_conditions_by_rule(tree, n, rule) ==
  LET below(c) == get_conditions_by_rule(tree, c, rule)
  IN FlatMap(below, tree[n].children)
       \o (IF tree[n].node_type = NODE_CONDITION /\ tree[n].rule = rule
           THEN <<n>> ELSE <<>>)

\* TreeNode.condition_get_sequence_grandparent
condition_get_sequence_grandparent(tree, n) ==
  IF /\ tree[n].node_type = NODE_CONDITION
     /\ tree[n].parent # None
     /\ tree[tree[n].parent].parent # None
     /\ tree[tree[tree[n].parent].parent].node_type = NODE_SEQUENCE
  THEN tree[tree[n].parent].parent
  ELSE None

\* TreeNode.condition_is_sequence_next raises IndexError when the block at
\* the index has no child at NODE_CONDITION_POS.
sequence_next_raises(tree, index, n) ==
  LET grandparent == condition_get_sequence_grandparent(tree, n)
  IN /\ grandparent # None
     /\ Len(tree[tree[grandparent].children[index[grandparent] + 1]].children)
          < NODE_CONDITION_POS

\* TreeNode.condition_is_sequence_next; `index` is next_grandchild_index of
\* every sequence node.
condition_is_sequence_next(tree, index, n) ==
  LET grandparent == condition_get_sequence_grandparent(tree, n)
  IN IF grandparent = None THEN FALSE
     ELSE tree[tree[grandparent].children[index[grandparent] + 1]]
            .children[NODE_CONDITION_POS] = n

\* TreeNode.condition_is_sequence_blocked
condition_is_sequence_blocked(tree, index, n) ==
  /\ condition_get_sequence_grandparent(tree, n) # None
  /\ ~condition_is_sequence_next(tree, index, n)

\* ------------------------------------------------------------------ parser
\* The parser state: the tree, the dependency index self.rules (signal name
\* to the list of rules), the compiled rules, and self.exec_queue.  A rule
\* is named by its index in `code`.
\* A variant of add_rule with the fault of an index that holds a rule once
\* per signal: C22 does not hold of it.
add_rule_once_per_signal(ps, identifiers, rule) ==
  LET RECURSIVE go(_, _)
      go(rules, i) ==
        IF i > Len(identifiers) THEN rules
        ELSE LET signal_name == identifiers[i]
                 r1 == IF signal_name \in DOMAIN rules THEN rules
                       ELSE rules @@ (signal_name :> <<>>)
             IN go(IF \E j \in 1..(i - 1) : identifiers[j] = signal_name THEN r1
                   ELSE [r1 EXCEPT ![signal_name] = Append(@, rule)], i + 1)
  IN [ps EXCEPT !.rules = go(ps.rules, 1)]

\* State.add_rule: the rule is appended to the list of every identifier of
\* the condition, once per entry of `identifiers`.
add_rule(ps, identifiers, rule) ==
  LET RECURSIVE go(_, _)
      go(rules, i) ==
        IF i > Len(identifiers) THEN rules
        ELSE LET signal_name == identifiers[i]
                 r1 == IF signal_name \in DOMAIN rules THEN rules
                       ELSE rules @@ (signal_name :> <<>>)
             IN go([r1 EXCEPT ![signal_name] = Append(@, rule)], i + 1)
  IN [ps EXCEPT !.rules = go(ps.rules, 1)]

\* State.handle_condition: the condition node, and the compiled rule
\*   if <expr>: State.condition_changed(text, True, node, emit_signal, emit_value)
\*   else:      State.condition_changed(text, False, node)
\* whose two calls exist only when condition checks are logged.
handle_condition(ps, data, parent, log_condition_checks) ==
  LET orig_condition == data.condition
      condition == IF find_xor(orig_condition)
                   THEN _handle_xor_condition(orig_condition)
                   ELSE orig_condition
      condition_expr == ast_parse(condition)
      identifiers == ParseIdentifiers(condition_expr)
      monitored == NODE_START \in DOMAIN data /\ NODE_STOP \in DOMAIN data
      node == TreeNode(NODE_CONDITION, condition_expr,
                       IF monitored THEN data.start ELSE -1,
                       IF monitored THEN data.stop ELSE -1,
                       identifiers)
      id == Len(ps.tree) + 1
      rule == Len(ps.code) + 1
      compiled == [expr |-> condition_expr, text |-> orig_condition, node_ref |-> id,
                   actions |-> log_condition_checks,
                   emit_signal |-> IF NODE_EMIT \in DOMAIN data
                                   THEN data.emit.signal ELSE NoneText,
                   emit_value |-> IF NODE_EMIT \in DOMAIN data
                                  THEN data.emit.value ELSE NoneText]
      t1 == add_child(ps.tree, parent, node)
  IN add_rule([ps EXCEPT !.tree = [t1 EXCEPT ![id].rule = rule],
                         !.code = Append(@, compiled)],
              identifiers, rule)

\* A variant of handle_emit with the fault of a parser that queues the
\* unconditional emits also when a log is replayed: C12 does not hold of it.
handle_emit_when_replaying(ps, data, parent, replaying) ==
  LET action == [signal |-> data.emit.signal, value |-> data.emit.value,
                 delayed |-> "delay" \in DOMAIN data.emit,
                 delay |-> IF "delay" \in DOMAIN data.emit
                           THEN data.emit.delay ELSE 0]
  IN [ps EXCEPT !.tree = add_child(@, parent,
                              TreeNode(NODE_EMIT, action, -1, -1, <<>>)),
                !.exec_queue = Append(@, action)]

\* State.handle_emit for an entry that has no condition: the emit node and
\* the program queued in exec_queue; nothing when a log is replayed and the
\* block holds no condition.
handle_emit(ps, data, parent, replaying) ==
  LET conditional_node ==
        \E i \in 1..Len(ps.tree[parent].children) :
          ps.tree[ps.tree[parent].children[i]].node_type = NODE_CONDITION
      action == [signal |-> data.emit.signal, value |-> data.emit.value,
                 delayed |-> "delay" \in DOMAIN data.emit,
                 delay |-> IF "delay" \in DOMAIN data.emit
                           THEN data.emit.delay ELSE 0]
  IN IF ~conditional_node /\ replaying THEN ps
     ELSE [ps EXCEPT !.tree = add_child(@, parent,
                                 TreeNode(NODE_EMIT, action, -1, -1, <<>>)),
                     !.exec_queue = Append(@, action)]

\* State.__parse_items and State.handle_children
RECURSIVE parse_items(_, _, _, _)
RECURSIVE handle_children(_, _, _, _, _)
parse_items(ps, item, parent, cfg) ==
  LET p1 == IF NODE_PARALLEL \in DOMAIN item
            THEN handle_children(ps, item, NODE_PARALLEL, parent, cfg) ELSE ps
      p2 == IF NODE_SEQUENCE \in DOMAIN item
            THEN handle_children(p1, item, NODE_SEQUENCE, parent, cfg) ELSE p1
  IN IF NODE_CONDITION \in DOMAIN item
     THEN handle_condition(p2, item, parent, cfg.log_condition_checks)
     ELSE IF NODE_EMIT \in DOMAIN item
     THEN handle_emit(p2, item, parent, cfg.replaying)
     ELSE p2

handle_children(ps, data, child_type, parent, cfg) ==
  LET wrapper_node == Len(ps.tree) + 1
      RECURSIVE items(_, _)
      items(p, i) ==
        IF i > Len(data[child_type]) THEN p
        ELSE LET block_node == Len(p.tree) + 1
                 withBlock == [p EXCEPT !.tree = add_child(@, wrapper_node,
                                  TreeNode(NODE_BLOCK, None, -1, -1, <<>>))]
             IN items(parse_items(withBlock, data[child_type][i], block_node, cfg),
                      i + 1)
  IN items([ps EXCEPT !.tree = add_child(@, parent,
                                  TreeNode(child_type, None, -1, -1, <<>>))], 1)

\* State.parse_rules over the list of the rules file; config_tree is the
\* root node created by the main program.
parse_rules(data, cfg) ==
  LET RECURSIVE top(_, _)
      top(p, i) ==
        IF i > Len(data) THEN p
        ELSE LET block_node == Len(p.tree) + 1
                 withBlock == [p EXCEPT !.tree = add_child(@, 1,
                                  TreeNode(NODE_BLOCK, None, -1, -1, <<>>))]
             IN top(parse_items(withBlock, data[i], block_node, cfg), i + 1)
  IN top([tree |-> <<TreeNode(NODE_ROOT, None, -1, -1, <<>>)>>,
          rules |-> <<>>, code |-> <<>>, exec_queue |-> <<>>], 1)

\* ------------------------------------------------------- rules files, input
\* Signal names and texts of the sample rules, shortened.
transmission_gear == <<"t", ".", "g">>
camera_backup_active == <<"c", ".", "a">>
lights_external_backup == <<"l", ".", "b">>
camera_ok == <<"c", ".", "k">>
wipers == <<"w">>
lights == <<"l">>
ignition == <<"i", "g">>
parked == <<"p", "k">>
ignited == <<"i", "d">>
lock_state == <<"l", ".", "s">>
quit == <<"q", "u", "i", "t">>
reverse == <<"r", "e", "v">>
forward == <<"f", "w", "d">>
park == <<"p", "r", "k">>
phone_call == <<"p", ".", "c">>
speed_value == <<"s", ".", "v">>
car_stop == <<"c", ".", "s">>
active == <<"a", "c", "t">>
inactive == <<"i", "n", "a">>
Quoted(text) == <<"\"">> \o text \o <<"\"">>

Emit(signal, value) == [signal |-> signal, value |-> value]

\* sample_rules/monitored_condition.yaml: a condition and a monitored
\* subcondition (the deadlines scaled down to 1 ms and 2 ms).
RulesMonitored ==
  << [condition |-> Bin("eq", Name(transmission_gear), Const(VStr(reverse))),
      emit |-> Emit(lights_external_backup, TrueText),
      parallel |->
        << [condition |-> Bin("eq", Name(camera_backup_active), Const(VBool(TRUE))),
            start |-> 1, stop |-> 2,
            emit |-> Emit(camera_ok, TrueText)] >>] >>

\* Three levels: a subcondition that has a subcondition of its own.
RulesNested ==
  << [condition |-> Bin("eq", Name(transmission_gear), Const(VStr(reverse))),
      parallel |->
        << [condition |-> Bin("eq", Name(camera_backup_active), Const(VBool(TRUE))),
            start |-> 1, stop |-> 2,
            parallel |->
              << [condition |-> Bin("eq", Name(wipers), Const(VBool(TRUE))),
                  start |-> 8, stop |-> 9,
                  emit |-> Emit(lights, <<"o", "n">>)] >>] >>] >>

\* sample_rules/sequence.yaml
RulesSequence ==
  << [sequence |->
        << [condition |-> Bin("eq", Name(transmission_gear), Const(VStr(park))),
            emit |-> Emit(parked, TrueText)],
           [condition |-> Bin("eq", Name(ignition), Const(VBool(TRUE))),
            emit |-> Emit(ignited, TrueText)] >>] >>

\* A sequence whose second entry has subconditions of its own.
RulesSequenceNested ==
  << [sequence |->
        << [condition |-> Bin("eq", Name(transmission_gear), Const(VStr(park))),
            emit |-> Emit(parked, TrueText)],
           [condition |-> Bin("eq", Name(ignition), Const(VBool(TRUE))),
            emit |-> Emit(ignited, TrueText),
            parallel |->
              << [condition |-> Bin("eq", Name(wipers), Const(VBool(TRUE))),
                  emit |-> Emit(lights, <<"o", "n">>)] >>] >>] >>

\* A rule that emits the signal it listens to, a rule over two signals, and
\* an unconditional emit (sample_rules/unconditional_emit.yaml) with a delay.
RulesSimple ==
  << [condition |-> Bin("eq", Name(wipers), Const(VInt(1))),
      emit |-> Emit(wipers, <<"o", "n">>)],
     [condition |-> Bin("and", Bin("ne", Name(ignition), Const(VBool(TRUE))),
                               Bin("gt", Name(wipers), Const(VInt(0)))),
      emit |-> Emit(lights, TrueText)],
     [emit |-> [signal |-> lock_state, value |-> TrueText, delay |-> 1]] >>

\* sample_rules/unconditional_emit.yaml, and a rule after it.
RulesUnconditional ==
  << [emit |-> Emit(lock_state, TrueText)],
     [condition |-> Bin("eq", Name(wipers), Const(VBool(TRUE))),
      emit |-> Emit(lights, <<"o", "n">>)] >>

\* sample_rules/parallel.yaml: two conditions under one parallel.
RulesParallel ==
  << [parallel |->
        << [condition |-> Bin("eq", Name(transmission_gear), Const(VStr(reverse))),
            emit |-> Emit(lights_external_backup, TrueText)],
           [condition |-> Bin("eq", Name(wipers), Const(VBool(TRUE))),
            emit |-> Emit(lights, <<"o", "n">>)] >>] >>

\* The rules of test_simple3_xor_condition, the condition as its text:
\*   phone.call == 'active' ^^ speed.value > 50.90
RulesXor ==
  << [condition |-> Text(<<Name(phone_call), Op("=="), Const(VStr(active)), XOR,
                           Name(speed_value), Op(">"), Const(VFloat(509))>>),
      emit |-> Emit(car_stop, TrueText)] >>

\* A rule whose condition names one signal twice, as the first rule of
\* sample_rules/subclauses_arithmetic_booleans.yaml does:
\*   wipers >= 1 and not (wipers >= 2)
RulesSubclauses ==
  << [condition |-> Text(<<Name(wipers), Op(">="), Const(VInt(1)), Op("and"), Op("not"),
                           Op("("), Name(wipers), Op(">="), Const(VInt(2)), Op(")")>>),
      emit |-> Emit(lights, TrueText)] >>

\* The shape drawn in the comment of TreeNode.find_subconditions: a condition
\* whose parallel wrapper holds more than one condition, the first of them
\* without start and stop.
RulesSubconditions ==
  << [condition |-> Bin("eq", Name(transmission_gear), Const(VStr(reverse))),
      parallel |->
        << [condition |-> Bin("eq", Name(camera_backup_active), Const(VBool(TRUE))),
            emit |-> Emit(camera_ok, TrueText)],
           [condition |-> Bin("eq", Name(wipers), Const(VBool(TRUE))),
            start |-> 1, stop |-> 2,
            emit |-> Emit(lights, <<"o", "n">>)] >>] >>

\* A rule over a dotted signal, for a State that also holds the signal whose
\* name is the same with '_' for '.'.
phone_call_undotted == <<"p", "_", "c">>
RulesUndot ==
  << [condition |-> Bin("eq", Name(phone_call), Const(VStr(active))),
      emit |-> Emit(car_stop, TrueText)] >>

\* A sequence whose two conditions reference the same signal.
RulesSequenceSameSignal ==
  << [sequence |->
        << [condition |-> Bin("eq", Name(transmission_gear), Const(VStr(park))),
            emit |-> Emit(parked, TrueText)],
           [condition |-> Bin("ne", Name(transmission_gear), Const(VStr(forward))),
            emit |-> Emit(ignited, TrueText)] >>] >>

RuleFiles ==
  [monitored |-> RulesMonitored, nested |-> RulesNested, parallel |-> RulesParallel,
   sequence |-> RulesSequence, sequence_nested |-> RulesSequenceNested,
   sequence_same_signal |-> RulesSequenceSameSignal,
   simple |-> RulesSimple, subclauses |-> RulesSubclauses,
   subconditions |-> RulesSubconditions,
   unconditional |-> RulesUnconditional, undot |-> RulesUndot, xor |-> RulesXor]

\* What ipc_obj.receive() can return, for a run with the given rules file,
\* once it has returned n times: None, or the tuple of the stripped fields of
\* a line `signal = value`.  The run with the nested rules reads a recorded
\* input file, as the tests do: its lines come in their order, then None at
\* the end of the file, and so does the run with the subconditions rules
\* (one line); the other runs read any line at any time.  "replay"
\* is the input of the run that replays a log (the simple rules).
NoMessage == [fields |-> <<>>, none |-> TRUE]
Fields(fields) == [fields |-> fields, none |-> FALSE]
Msg(signal, value) == Fields(<<signal, value>>)
InputFile ==
  <<Msg(transmission_gear, Quoted(reverse)), Msg(camera_backup_active, TrueText),
    Msg(wipers, TrueText)>>
Inputs(file, n) ==
  CASE file = "monitored" ->
         {Msg(transmission_gear, Quoted(reverse)), Msg(transmission_gear, Quoted(forward)),
          Msg(camera_backup_active, TrueText), Msg(camera_backup_active, FalseText)}
    [] file = "nested" ->
         IF n < Len(InputFile) THEN {InputFile[n + 1]} ELSE {NoMessage}
    [] file = "sequence" ->
         {Msg(transmission_gear, Quoted(park)), Msg(transmission_gear, Quoted(forward)),
          Msg(ignition, TrueText), Msg(ignition, FalseText)}
    [] file = "sequence_same_signal" ->
         {Msg(transmission_gear, Quoted(park)), Msg(transmission_gear, Quoted(forward))}
    [] file = "sequence_nested" ->
         {Msg(transmission_gear, Quoted(park)), Msg(ignition, TrueText),
          Msg(wipers, TrueText)}
    [] file = "simple" ->
         {Msg(wipers, <<"1">>), Msg(wipers, <<"0">>), Msg(wipers, Quoted(<<"o", "n">>)),
          Msg(wipers, <<"o", "n">>), Msg(ignition, FalseText), Msg(ignition, TrueText),
          Msg(quit, <<>>), Fields(<<quit>>), Fields(<<wipers>>), NoMessage}
    [] file = "unconditional" ->
         {Msg(wipers, TrueText), Msg(wipers, FalseText), Msg(lock_state, FalseText)}
    [] file = "replay" -> {Msg(wipers, <<"1">>), NoMessage}
    [] file = "parallel" ->
         {Msg(transmission_gear, Quoted(reverse)), Msg(transmission_gear, Quoted(forward)),
          Msg(wipers, TrueText), Msg(wipers, FalseText)}
    [] file = "subconditions" ->
         IF n < 1 THEN {Msg(transmission_gear, Quoted(reverse))} ELSE {NoMessage}
    [] file = "subclauses" ->
         {Msg(wipers, <<"1">>), Msg(wipers, <<"2">>), Msg(lights, FalseText)}
    [] file = "undot" ->
         {Msg(phone_call, Quoted(active)), Msg(phone_call_undotted, Quoted(inactive))}
    [] file = "xor" ->
         {Msg(phone_call, Quoted(active)), Msg(phone_call, Quoted(inactive)),
          Msg(speed_value, <<"5", ".", "0">>), Msg(speed_value, <<"6", "0", ".", "0">>)}

\* The parse of every rules file, for each setting of
\* --no-log-condition-checks and --replay-log-file.
Parsed ==
  [file \in DOMAIN RuleFiles, log_condition_checks \in BOOLEAN, replaying \in BOOLEAN |->
     parse_rules(RuleFiles[file],
                 [log_condition_checks |-> log_condition_checks,
                  replaying |-> replaying])]

\* ------------------------------------------------------------------- state
VARIABLES
  args,                   \* the command line: rules file and flags
  variables,              \* State.variables: pairs <<name, value>>, in insertion order
  condition_met,          \* TreeNode.condition_met of every condition node
  monitor_init_time_ms,   \* TreeNode.monitor_init_time_ms
  start_timer,            \* TreeNode.start_timer: a timer or None
  stop_timer,             \* TreeNode.stop_timer: a timer or None
  next_grandchild_index,  \* TreeNode.next_grandchild_index of every sequence node
  timers,                 \* the threading.Timer objects that are alive
  threads,                \* every threading.Thread(target=delayed_emit) started so far
  log,                    \* what was written to the logger since the last
                          \* return of ipc_obj.receive(), in order
  ipc_sent,               \* what was handed to ipc_obj.send since then, in order
  ipc_closed,             \* ipc_obj.close() was called
  now,                    \* the clock get_runtime() reads, in ms
  received,               \* number of returns of ipc_obj.receive()
  main                    \* the main thread: its position and its local variables

vars == <<args, variables, condition_met, monitor_init_time_ms, start_timer,
          stop_timer, next_grandchild_index, timers, threads, log, ipc_sent,
          ipc_closed, now, received, main>>

state == Parsed[args.rules, args.log_condition_checks, args.replaying]
config_tree == state.tree
ConditionNodes == {n \in 1..Len(config_tree) : config_tree[n].node_type = NODE_CONDITION}
SequenceNodes == {n \in 1..Len(config_tree) : config_tree[n].node_type = NODE_SEQUENCE}

\* ---------------------------------------------------------------- logging
\* Logger.signal
LogSignal(indicator, signal, value) ==
  [k |-> "signal", indicator |-> indicator, signal |-> signal, value |-> value]
LogInfo(text) == [k |-> "info", text |-> text]
LogError(text, about) == [k |-> "error", text |-> text, about |-> about]
LogParent(signal, value) == [k |-> "parent condition", signal |-> signal, value |-> value]
\* "condition: ({}) => {}" of the text that the compiled rule of the node
\* hands to State.condition_changed
LogCondition(node, result) ==
  [k |-> "condition", node |-> node, result |-> result,
   text |-> state.code[config_tree[node].rule].text]
LogState(lines) == [k |-> "State", lines |-> lines]

RECURSIVE IntText(_)
IntText(n) ==
  LET digit == SubSeq(<<"0", "1", "2", "3", "4", "5", "6", "7", "8", "9">>,
                      (n % 10) + 1, (n % 10) + 1)
  IN IF n < 10 THEN digit ELSE IntText(n \div 10) \o digit

\* str(value), as "{} = {}".format(k, v) renders it
StrOf(value) ==
  CASE value.t = "str" -> value.v
    [] value.t = "bool" -> (IF value.v THEN TrueText ELSE FalseText)
    [] value.t = "int" -> IntText(value.v)
    [] value.t = "float" -> IntText(value.v \div 10) \o <<".">> \o IntText(value.v % 10)

\* A variant of Sorted with the fault of a dump that iterates the dictionary
\* without sorted(): C3 does not hold of it.
InsertionOrder(items) == items

\* sorted(vars(self.variables).items()): the keys are distinct, so the
\* order is the order of the names.
RECURSIVE Sorted(_)
Sorted(items) ==
  IF items = <<>> THEN <<>>
  ELSE LET least == CHOOSE i \in 1..Len(items) :
                      \A j \in 1..Len(items) :
                        j # i => StrLess(items[i][1], items[j][1])
       IN <<items[least]>>
            \o Sorted(SubSeq(items, 1, least - 1) \o SubSeq(items, least + 1, Len(items)))

\* vars(self.variables)[signal] = value
SetItem(items, signal, value) ==
  IF \E i \in 1..Len(items) : items[i][1] = signal
  THEN [i \in 1..Len(items) |->
          IF items[i][1] = signal THEN <<signal, value>> ELSE items[i]]
  ELSE Append(items, <<signal, value>>)

Has(items, signal) == \E i \in 1..Len(items) : items[i][1] = signal
Get(items, signal) == items[CHOOSE i \in 1..Len(items) : items[i][1] = signal][2]

\* The State dump of State._update_report_state
StateDump(items) ==
  LET sorted == Sorted(items)
  IN LogState([i \in 1..Len(sorted) |-> <<sorted[i][1], StrOf(sorted[i][2])>>])

\* State._update_report_state, as the new values of `variables` and `log`
_update_report_state(signal, value) ==
  /\ variables' = SetItem(variables, signal, value)
  /\ log' = Append(log, StateDump(SetItem(variables, signal, value)))

\* ------------------------------------------------------------ main thread
\* The local variables of the main thread; `pc` is the statement it is at.
NoValue == [t |-> "none", v |-> FALSE]
Locals ==
  [pc |-> "receive", i |-> 0, signal |-> <<>>, value |-> NoValue, idx |-> 0,
   node |-> None, result |-> FALSE, runtime |-> 0, sub |-> 0,
   mc_node |-> None, succeeded |-> TRUE, failure_message |-> "",
   all_met |-> FALSE, emit_signal |-> <<>>, emit_value |-> <<>>, ret |-> "",
   raised |-> "", wake |-> 0, was_met |-> FALSE]

\* The command lines of the runs: every rules file without initial state and
\* without replay log, the rules with the unconditional emit with
\* --initial-state, and the simple rules with --replay-log-file.
CommandLines ==
  [rules : DOMAIN RuleFiles, log_condition_checks : {TRUE},
   replaying : {FALSE}, initial_state : {FALSE}]
    \cup [rules : {"unconditional"}, log_condition_checks : {TRUE},
          replaying : {FALSE}, initial_state : {TRUE}]
    \cup [rules : {"simple"}, log_condition_checks : {TRUE},
          replaying : {TRUE}, initial_state : {FALSE}]

\* The same command lines, and one with --no-log-condition-checks.
CommandLinesNoLog ==
  CommandLines
    \cup [rules : {"monitored"}, log_condition_checks : {FALSE},
          replaying : {FALSE}, initial_state : {FALSE}]

\* State.handle_condition, `rule = compile(ast_module, '<string>', 'exec')`:
\* with --no-log-condition-checks the tree is ast.If(test, [], []), which the
\* compile of an interpreter that validates the tree (Python 3.3 and later)
\* refuses with ValueError("empty body on If"); an interpreter that does not
\* validate yields a rule that evaluates the test and does nothing.
compile_outcomes ==
  IF ~args.log_condition_checks /\ ConditionNodes # {}
  THEN {"ValueError", ""} ELSE {""}

InitWith(command_lines) ==
  /\ args \in command_lines
  /\ variables = <<>>
  /\ condition_met = [n \in ConditionNodes |-> FALSE]
  /\ monitor_init_time_ms = [n \in ConditionNodes |-> -1]
  /\ start_timer = [n \in ConditionNodes |-> None]
  /\ stop_timer = [n \in ConditionNodes |-> None]
  /\ next_grandchild_index = [n \in SequenceNodes |-> 0]
  /\ timers = <<>>
  /\ threads = <<>>
  /\ log = <<>>
  /\ ipc_sent = <<>>
  /\ ipc_closed = FALSE
  /\ now = 0
  /\ received = 0
  /\ \E raised \in compile_outcomes :
       main = IF raised = "" THEN [Locals EXCEPT !.pc = "initial_state"]
              ELSE [Locals EXCEPT !.pc = "crashed", !.raised = raised]

Init == InitWith(CommandLines)
InitNoLog == InitWith(CommandLinesNoLog)

TreeUnchanged ==
  UNCHANGED <<condition_met, monitor_init_time_ms, start_timer, stop_timer,
              next_grandchild_index, timers>>

\* The --initial-state file: a list of `name = value`.
InitialState == <<<<ignition, FalseText>>>>

\* State.__init__, `if initial_state:`: every value is stored as the text
\* that follows the '='.
SeedState ==
  /\ main.pc = "initial_state"
  /\ variables' =
       IF args.initial_state
       THEN [i \in 1..Len(InitialState) |-> <<InitialState[i][1], VStr(InitialState[i][2])>>]
       ELSE variables
  /\ main' = [main EXCEPT !.pc = "exec_queue", !.i = 1]
  /\ TreeUnchanged
  /\ UNCHANGED <<args, threads, log, ipc_sent, ipc_closed, now, received>>

\* State.__init__, `for rule in self.exec_queue: exec(rule, ...)`: one
\* unconditional emit, at once or on a thread of its own that sleeps first.
ExecQueue ==
  /\ main.pc = "exec_queue"
  /\ main.i <= Len(state.exec_queue)
  /\ LET action == state.exec_queue[main.i]
     IN IF action.delayed
        THEN /\ threads' = Append(threads,
                   [signal |-> action.signal, value |-> action.value,
                    wake |-> now + action.delay, pc |-> "sleep"])
             /\ main' = [main EXCEPT !.i = @ + 1]
        ELSE /\ main' = [main EXCEPT !.pc = "emit_log", !.i = @ + 1,
                           !.emit_signal = action.signal,
                           !.emit_value = action.value, !.ret = "exec_queue"]
             /\ UNCHANGED threads
  /\ TreeUnchanged
  /\ UNCHANGED <<args, variables, log, ipc_sent, ipc_closed, now, received>>

\* The main program, once State() is constructed: LogReplayer(...) when a
\* log is replayed, then run(state).
StartRun ==
  /\ main.pc = "exec_queue"
  /\ main.i > Len(state.exec_queue)
  /\ main' = IF args.replaying THEN [Locals EXCEPT !.pc = "replay_parse"] ELSE Locals
  /\ TreeUnchanged
  /\ UNCHANGED <<args, variables, threads, log, ipc_sent, ipc_closed, now, received>>

\* run(): one return of ipc_obj.receive() of the default transport (DebugIPC,
\* a StreamIPC on stdin and stdout), then process() up to the first line of
\* State.got_signal_record.
Receive ==
  /\ main.pc = "receive"
  /\ received < MaxRecv
  /\ received' = received + 1
  /\ \E message \in Inputs(IF args.replaying THEN "replay" ELSE args.rules, received) :
       IF message.none
       THEN /\ log' = <<LogInfo("skipping invalid message")>>
            /\ UNCHANGED <<main, ipc_closed>>
       ELSE IF message.fields = <<quit>>
       THEN \* DebugIPC._readline: the line is "quit", exit(0)
            /\ main' = [main EXCEPT !.pc = "exited"]
            /\ log' = <<>>
            /\ UNCHANGED ipc_closed
       ELSE IF Len(message.fields) # 2
       THEN \* signal, value = message raises ValueError, which run() lets through
            /\ main' = [main EXCEPT !.pc = "crashed", !.raised = "ValueError"]
            /\ log' = <<>>
            /\ UNCHANGED ipc_closed
       ELSE IF message.fields[1] = quit
       THEN \* ipc_obj.close(): StreamIPC.close calls close(self._in), a name
            \* that is not defined, before anything is closed
            /\ main' = [main EXCEPT !.pc = "crashed", !.signal = quit,
                                    !.raised = "NameError"]
            /\ log' = <<>>
            /\ UNCHANGED ipc_closed
       ELSE IF ConvertValue(message.fields[2]).t = "ValueError"
       THEN /\ log' = <<LogError("incorrect value", message.fields[2])>>
            /\ UNCHANGED <<main, ipc_closed>>
       ELSE /\ log' = <<LogSignal(SIGNAL_PREFIX_INCOMING, message.fields[1],
                                  ConvertValue(message.fields[2]))>>
            /\ main' = [main EXCEPT !.pc = "update_state",
                          !.signal = message.fields[1],
                          !.value = ConvertValue(message.fields[2])]
            /\ UNCHANGED ipc_closed
  /\ ipc_sent' = <<>>
  /\ TreeUnchanged
  /\ UNCHANGED <<args, variables, threads, now>>

\* State.got_signal_record, second line, and the test `signal in self.rules`
UpdateState ==
  /\ main.pc = "update_state"
  /\ _update_report_state(main.signal, main.value)
  /\ main' = IF main.signal \in DOMAIN state.rules
             THEN [main EXCEPT !.pc = "rule", !.idx = 1]
             ELSE Locals
  /\ TreeUnchanged
  /\ UNCHANGED <<args, threads, ipc_sent, ipc_closed, now, received>>

\* The main thread after the body of `for rule in self.rules[signal]` for
\* the rule at main.idx: at the next rule, or back in run().
NextRule ==
  IF main.idx < Len(state.rules[main.signal])
  THEN [Locals EXCEPT !.pc = "rule", !.signal = main.signal,
                      !.value = main.value, !.idx = main.idx + 1]
  ELSE Locals

\* State.got_signal, the body of the loop up to the evaluation of the
\* rule's expression: the sequence gate, then exec(rule, ...) with the
\* undotted snapshot of the State.
Blocked(rule) ==
  LET matches == get_conditions_by_rule(config_tree, 1, rule)
  IN \E k \in 1..Len(matches) :
       condition_is_sequence_blocked(config_tree, next_grandchild_index, matches[k])

GateRaises(rule) ==
  LET matches == get_conditions_by_rule(config_tree, 1, rule)
  IN \E k \in 1..Len(matches) :
       /\ sequence_next_raises(config_tree, next_grandchild_index, matches[k])
       /\ \A j \in 1..(k - 1) :
            ~condition_is_sequence_blocked(config_tree, next_grandchild_index, matches[j])

\* A variant of Rule with the fault of a got_signal that has no
\* `except NameError`: C11 does not hold of it.
Rule_propagating_NameError ==
  /\ main.pc = "rule"
  /\ LET rule == state.rules[main.signal][main.idx]
         compiled == state.code[rule]
         outcome == Eval(compiled.expr, _undot_variables(variables))
     IN IF GateRaises(rule)
        THEN /\ main' = [main EXCEPT !.pc = "crashed", !.raised = "IndexError"]
             /\ UNCHANGED log
        ELSE IF Blocked(rule)
        THEN /\ log' = Append(log, LogError("changed value ignored", main.signal))
             /\ main' = NextRule
        ELSE /\ UNCHANGED log
             /\ main' = IF outcome.k = "NameError"
                        THEN [main EXCEPT !.pc = "crashed", !.raised = "NameError"]
                        ELSE IF outcome.k = "TypeError"
                        THEN [main EXCEPT !.pc = "crashed", !.raised = "TypeError"]
                        ELSE IF ~compiled.actions THEN NextRule
                        ELSE [main EXCEPT !.pc = "notify_condition",
                                !.node = compiled.node_ref,
                                !.result = Truthy(outcome.v)]
  /\ TreeUnchanged
  /\ UNCHANGED <<args, variables, threads, ipc_sent, ipc_closed, now, received>>

Rule ==
  /\ main.pc = "rule"
  /\ LET rule == state.rules[main.signal][main.idx]
         compiled == state.code[rule]
         outcome == Eval(compiled.expr, _undot_variables(variables))
     IN IF GateRaises(rule)
        THEN /\ main' = [main EXCEPT !.pc = "crashed", !.raised = "IndexError"]
             /\ UNCHANGED log
        ELSE IF Blocked(rule)
        THEN /\ log' = Append(log, LogError("changed value ignored", main.signal))
             /\ main' = NextRule
        ELSE /\ UNCHANGED log
             /\ main' = IF outcome.k = "NameError" THEN NextRule
                        ELSE IF outcome.k = "TypeError"
                        THEN [main EXCEPT !.pc = "crashed", !.raised = "TypeError"]
                        ELSE IF ~compiled.actions THEN NextRule
                        ELSE [main EXCEPT !.pc = "notify_condition",
                                !.node = compiled.node_ref,
                                !.result = Truthy(outcome.v)]
  /\ TreeUnchanged
  /\ UNCHANGED <<args, variables, threads, ipc_sent, ipc_closed, now, received>>

\* ----------------------------------------------------------- timers, model
\* A threading.Timer: `st` is "created" before start(), "waiting" while its
\* thread waits for the interval, "cancelled" once cancel() came before the
\* function was called; the other values are the positions of the thread
\* inside the function.  `deadline` is the time of start() plus the interval.
NewTimer(node, kind) ==
  [node |-> node, kind |-> kind, st |-> "created", deadline |-> 0, succeeded |-> TRUE]

\* A Timer whose thread has ended, or will end without calling the function.
Dead(timer) == timer.st \in {"cancelled", "finished"}
Collected == [node |-> None, kind |-> "", st |-> "finished", deadline |-> 0,
              succeeded |-> TRUE]

\* The Timer objects left once Python has freed every Timer that is dead and
\* that no start_timer or stop_timer refers to.  A freed slot in the middle
\* stays (the handles are indices) and is used again by AllocTimer.
RECURSIVE Trim(_)
Trim(pool) ==
  IF pool # <<>> /\ pool[Len(pool)] = Collected
  THEN Trim(SubSeq(pool, 1, Len(pool) - 1)) ELSE pool

Collect(pool, starts, stops) ==
  Trim([t \in 1..Len(pool) |->
          IF /\ Dead(pool[t])
             /\ \A n \in DOMAIN starts : starts[n] # t /\ stops[n] # t
          THEN Collected ELSE pool[t]])

\* The handle a new Timer gets: the first free slot.
AllocTimer(pool) ==
  IF \E t \in 1..Len(pool) : pool[t] = Collected
  THEN CHOOSE t \in 1..Len(pool) :
         pool[t] = Collected /\ \A u \in 1..(t - 1) : pool[u] # Collected
  ELSE Len(pool) + 1

Store(pool, t, timer) ==
  IF t > Len(pool) THEN Append(pool, timer) ELSE [pool EXCEPT ![t] = timer]

\* Timer.start()
Started(timer, interval) ==
  IF timer.st = "created"
  THEN [timer EXCEPT !.st = "waiting", !.deadline = now + interval]
  ELSE timer

\* Timer.cancel(): without effect once the function has been called.
Cancelled(pool, t) ==
  IF t # None /\ pool[t].st \in {"created", "waiting"}
  THEN [pool EXCEPT ![t].st = "cancelled"]
  ELSE pool

\* --------------------------------------------- main thread: condition_changed
\* TreeNode.notify_condition, the three assignments before `if state:`
\* (`was_met` keeps the value condition_met had when the call was entered).
NotifyCondition ==
  /\ main.pc = "notify_condition"
  /\ main' = [main EXCEPT !.runtime = now, !.was_met = condition_met[main.node],
                !.pc = IF main.result THEN "notify_true" ELSE "notify_false"]
  /\ TreeUnchanged
  /\ UNCHANGED <<args, variables, threads, log, ipc_sent, ipc_closed, now, received>>

start_max_ms(n) == monitor_init_time_ms[n] + config_tree[n].start_time_ms
stop_min_ms(n) == monitor_init_time_ms[n] + config_tree[n].stop_time_ms

\* TreeNode.notify_condition, the branch `if state:`
NotifyTrue ==
  /\ main.pc = "notify_true"
  /\ condition_met' =
       IF \/ main.runtime < start_max_ms(main.node)
          \/ start_timer[main.node] = None /\ stop_timer[main.node] = None
       THEN [condition_met EXCEPT ![main.node] = TRUE]
       ELSE condition_met
  /\ main' = [main EXCEPT !.pc = "subconditions", !.sub = 1]
  /\ UNCHANGED <<args, variables, monitor_init_time_ms, start_timer, stop_timer,
                 next_grandchild_index, timers, threads, log, ipc_sent,
                 ipc_closed, now, received>>

\* TreeNode.notify_condition, the branch `else:`, first statement
\* A variant of NotifyFalse with the fault of a condition that, found false,
\* clears the flags of its subconditions with its own: C38 does not hold of it.
NotifyFalse_clearing_subconditions ==
  /\ main.pc = "notify_false"
  /\ condition_met' =
       [n \in ConditionNodes |->
          IF n = main.node \/ \E i \in 1..Len(find_subconditions(config_tree, main.node)) :
                                 find_subconditions(config_tree, main.node)[i] = n
          THEN FALSE ELSE condition_met[n]]
  /\ main' = [main EXCEPT !.pc = "notify_false_monitor"]
  /\ UNCHANGED <<args, variables, monitor_init_time_ms, start_timer, stop_timer,
                 next_grandchild_index, timers, threads, log, ipc_sent,
                 ipc_closed, now, received>>

NotifyFalse ==
  /\ main.pc = "notify_false"
  /\ condition_met' = [condition_met EXCEPT ![main.node] = FALSE]
  /\ main' = [main EXCEPT !.pc = "notify_false_monitor"]
  /\ UNCHANGED <<args, variables, monitor_init_time_ms, start_timer, stop_timer,
                 next_grandchild_index, timers, threads, log, ipc_sent,
                 ipc_closed, now, received>>

\* A variant of NotifyFalseMonitor with the fault of a notify_condition that
\* does not look at the time: C23 does not hold of it.
NotifyFalseMonitor_at_any_time ==
  /\ main.pc = "notify_false_monitor"
  /\ main' =
       IF start_timer[main.node] # None \/ stop_timer[main.node] # None
       THEN [main EXCEPT !.pc = "monitor_start", !.mc_node = main.node,
                         !.succeeded = condition_met[main.node],
                         !.failure_message = "subcondition not maintained",
                         !.sub = 1]
       ELSE [main EXCEPT !.pc = "subconditions", !.sub = 1]
  /\ TreeUnchanged
  /\ UNCHANGED <<args, variables, threads, log, ipc_sent, ipc_closed, now, received>>

\* TreeNode.notify_condition, the branch `else:`, the test of the window and
\* of the timers, and the call of _monitor_completed
NotifyFalseMonitor ==
  /\ main.pc = "notify_false_monitor"
  /\ main' =
       IF /\ main.runtime >= start_max_ms(main.node)
          /\ main.runtime < stop_min_ms(main.node)
          /\ (start_timer[main.node] # None \/ stop_timer[main.node] # None)
       THEN [main EXCEPT !.pc = "monitor_start", !.mc_node = main.node,
                         !.succeeded = condition_met[main.node],
                         !.failure_message = "subcondition not maintained",
                         !.sub = 1]
       ELSE [main EXCEPT !.pc = "subconditions", !.sub = 1]
  /\ TreeUnchanged
  /\ UNCHANGED <<args, variables, threads, log, ipc_sent, ipc_closed, now, received>>

\* TreeNode._monitor_completed called by the main thread, first `if`
MonitorStart ==
  /\ main.pc = "monitor_start"
  /\ start_timer' = [start_timer EXCEPT ![main.mc_node] = None]
  /\ timers' = Collect(Cancelled(timers, start_timer[main.mc_node]),
                       start_timer', stop_timer)
  /\ main' = [main EXCEPT !.pc = "monitor_stop"]
  /\ UNCHANGED <<args, variables, condition_met, monitor_init_time_ms, stop_timer,
                 next_grandchild_index, threads, log, ipc_sent, ipc_closed,
                 now, received>>

\* A variant of MonitorStop with the fault of a _monitor_completed that
\* records its outcome, `self.condition_met = succeeded`, whatever it is: C10
\* does not hold of it.
MonitorStop_recording_outcome ==
  /\ main.pc = "monitor_stop"
  /\ stop_timer' = [stop_timer EXCEPT ![main.mc_node] = None]
  /\ timers' = Collect(Cancelled(timers, stop_timer[main.mc_node]),
                       start_timer, stop_timer')
  /\ condition_met' = [condition_met EXCEPT ![main.mc_node] = main.succeeded]
  /\ main' = IF main.succeeded
             THEN [main EXCEPT !.pc = "subconditions", !.mc_node = None,
                               !.failure_message = ""]
             ELSE [main EXCEPT !.pc = "monitor_failed"]
  /\ UNCHANGED <<args, variables, monitor_init_time_ms, start_timer,
                 next_grandchild_index, threads, log, ipc_sent, ipc_closed,
                 now, received>>

\* TreeNode._monitor_completed called by the main thread, second `if`
MonitorStop ==
  /\ main.pc = "monitor_stop"
  /\ stop_timer' = [stop_timer EXCEPT ![main.mc_node] = None]
  /\ timers' = Collect(Cancelled(timers, stop_timer[main.mc_node]),
                       start_timer, stop_timer')
  /\ main' = IF main.succeeded
             THEN [main EXCEPT !.pc = "subconditions", !.mc_node = None,
                               !.failure_message = ""]
             ELSE [main EXCEPT !.pc = "monitor_failed"]
  /\ UNCHANGED <<args, variables, condition_met, monitor_init_time_ms, start_timer,
                 next_grandchild_index, threads, log, ipc_sent, ipc_closed,
                 now, received>>

\* TreeNode._monitor_completed called by the main thread, `if not succeeded:`
MonitorFailed ==
  /\ main.pc = "monitor_failed"
  /\ condition_met' = [condition_met EXCEPT ![main.mc_node] = FALSE]
  /\ log' = Append(log, LogError(main.failure_message, main.mc_node))
  /\ main' = [main EXCEPT !.pc = "subconditions", !.mc_node = None,
                !.succeeded = TRUE, !.failure_message = ""]
  /\ UNCHANGED <<args, variables, monitor_init_time_ms, start_timer, stop_timer,
                 next_grandchild_index, timers, threads, ipc_sent, ipc_closed,
                 now, received>>

\* TreeNode.notify_condition, one turn of `for subcondition in
\* self.find_subconditions()`: TreeNode.notify_ancestor_condition up to the
\* start of start_timer, or up to the call of _monitor_completed.
NotifyAncestorCondition ==
  /\ main.pc = "subconditions"
  /\ main.sub <= Len(find_subconditions(config_tree, main.node))
  /\ LET subcondition == find_subconditions(config_tree, main.node)[main.sub]
         t1 == AllocTimer(timers)
         pool1 == Store(timers, t1,
                        Started(NewTimer(subcondition, "start"),
                                config_tree[subcondition].start_time_ms))
         t2 == AllocTimer(pool1)
     IN IF condition_met[main.node]
        THEN IF start_timer[subcondition] = None /\ stop_timer[subcondition] = None
             THEN /\ monitor_init_time_ms' =
                       [monitor_init_time_ms EXCEPT ![subcondition] = now]
                  /\ timers' = Store(pool1, t2, NewTimer(subcondition, "stop"))
                  /\ start_timer' = [start_timer EXCEPT ![subcondition] = t1]
                  /\ stop_timer' = [stop_timer EXCEPT ![subcondition] = t2]
                  /\ main' = [main EXCEPT !.pc = "start_stop_timer"]
             ELSE /\ main' = [main EXCEPT !.sub = @ + 1]
                  /\ UNCHANGED <<monitor_init_time_ms, timers, start_timer, stop_timer>>
        ELSE /\ main' = [main EXCEPT !.pc = "monitor_start", !.sub = @ + 1,
                           !.mc_node = subcondition, !.succeeded = TRUE,
                           !.failure_message = ""]
             /\ UNCHANGED <<monitor_init_time_ms, timers, start_timer, stop_timer>>
  /\ UNCHANGED <<args, variables, condition_met, next_grandchild_index, threads,
                 log, ipc_sent, ipc_closed, now, received>>

\* TreeNode.notify_ancestor_condition, `if self.stop_timer: self.stop_timer.start()`
StartStopTimer ==
  /\ main.pc = "start_stop_timer"
  /\ LET subcondition == find_subconditions(config_tree, main.node)[main.sub]
         t == stop_timer[subcondition]
     IN timers' = IF t # None
                  THEN [timers EXCEPT ![t] =
                          Started(@, config_tree[subcondition].stop_time_ms)]
                  ELSE timers
  /\ main' = [main EXCEPT !.pc = "subconditions", !.sub = @ + 1]
  /\ UNCHANGED <<args, variables, condition_met, monitor_init_time_ms, start_timer,
                 stop_timer, next_grandchild_index, threads, log, ipc_sent,
                 ipc_closed, now, received>>

\* A variant of _sequence_iterate_safe that forgets to go back to 0 after
\* the last block: C35 does not hold of it.
_sequence_iterate_unbounded(sequence, condition_grandchild) ==
  IF config_tree[sequence].node_type # NODE_SEQUENCE THEN next_grandchild_index
  ELSE IF condition_is_sequence_next(config_tree, next_grandchild_index,
                                     condition_grandchild)
  THEN [next_grandchild_index EXCEPT ![sequence] = @ + 1]
  ELSE next_grandchild_index

\* TreeNode._sequence_iterate_safe, as the new next_grandchild_index
_sequence_iterate_safe(sequence, condition_grandchild) ==
  IF config_tree[sequence].node_type # NODE_SEQUENCE THEN next_grandchild_index
  ELSE IF condition_is_sequence_next(config_tree, next_grandchild_index,
                                     condition_grandchild)
  THEN [next_grandchild_index EXCEPT ![sequence] =
          IF @ + 1 >= Len(config_tree[sequence].children) THEN 0 ELSE @ + 1]
  ELSE next_grandchild_index

\* TreeNode.notify_condition, its last statement (the sequence advances)
SequenceIterate ==
  /\ main.pc = "subconditions"
  /\ main.sub > Len(find_subconditions(config_tree, main.node))
  /\ LET parent == config_tree[main.node].parent
     IN next_grandchild_index' =
          IF parent # None /\ config_tree[parent].parent # None
          THEN _sequence_iterate_safe(config_tree[parent].parent, main.node)
          ELSE next_grandchild_index
  /\ main' = [main EXCEPT !.pc = "ancestors", !.sub = 0]
  /\ UNCHANGED <<args, variables, condition_met, monitor_init_time_ms, start_timer,
                 stop_timer, timers, threads, log, ipc_sent, ipc_closed, now,
                 received>>

\* State.condition_changed, the loop over the ancestors: the flags are read
\* and the `parent condition` lines are logged.
ParentLines(ancestors) ==
  LET line(signal) ==
        <<LogParent(signal, IF Has(variables, signal)
                            THEN StrOf(Get(variables, signal))
                            ELSE <<"(", "u", "n", "s", "e", "t", ")">>)>>
      lines(ancestor) == FlatMap(line, config_tree[ancestor].signals)
  IN FlatMap(lines, ancestors)

Ancestors ==
  /\ main.pc = "ancestors"
  /\ LET ancestors == get_ancestor_conditions(config_tree, main.node)
     IN /\ main' = [main EXCEPT !.pc = "condition_log",
                      !.all_met = \A k \in 1..Len(ancestors) :
                                    condition_met[ancestors[k]]]
        /\ log' = log \o ParentLines(ancestors)
  /\ TreeUnchanged
  /\ UNCHANGED <<args, variables, threads, ipc_sent, ipc_closed, now, received>>

\* A variant of ConditionLog with the fault of a test before emit that
\* leaves `result` out: C2 does not hold of it.
ConditionLog_ignoring_result ==
  /\ main.pc = "condition_log"
  /\ log' = Append(log, LogCondition(main.node, main.result))
  /\ LET compiled == state.code[config_tree[main.node].rule]
     IN main' = IF /\ main.all_met
                   /\ compiled.emit_signal \notin {NoneText, <<>>}
                THEN [main EXCEPT !.pc = "emit_log",
                                  !.emit_signal = compiled.emit_signal,
                                  !.emit_value = compiled.emit_value,
                                  !.ret = "rule"]
                ELSE NextRule
  /\ TreeUnchanged
  /\ UNCHANGED <<args, variables, threads, ipc_sent, ipc_closed, now, received>>

\* State.condition_changed, the `condition:` line and the test before emit
ConditionLog ==
  /\ main.pc = "condition_log"
  /\ log' = Append(log, LogCondition(main.node, main.result))
  /\ LET compiled == state.code[config_tree[main.node].rule]
     IN main' = IF /\ main.all_met
                   /\ main.result
                   /\ compiled.emit_signal \notin {NoneText, <<>>}
                THEN [main EXCEPT !.pc = "emit_log",
                                  !.emit_signal = compiled.emit_signal,
                                  !.emit_value = compiled.emit_value,
                                  !.ret = "rule"]
                ELSE NextRule
  /\ TreeUnchanged
  /\ UNCHANGED <<args, variables, threads, ipc_sent, ipc_closed, now, received>>

\* emit(), first statement, on the main thread
EmitLog ==
  /\ main.pc = "emit_log"
  /\ log' = Append(log, LogSignal(SIGNAL_PREFIX_OUTGOING, main.emit_signal,
                                  VStr(main.emit_value)))
  /\ main' = [main EXCEPT !.pc = "emit_send"]
  /\ TreeUnchanged
  /\ UNCHANGED <<args, variables, threads, ipc_sent, ipc_closed, now, received>>

\* emit(), second statement, on the main thread
EmitSend ==
  /\ main.pc = "emit_send"
  /\ ipc_sent' = Append(ipc_sent, <<main.emit_signal, VStr(main.emit_value)>>)
  /\ main' = [main EXCEPT !.pc = "emit_update"]
  /\ TreeUnchanged
  /\ UNCHANGED <<args, variables, threads, log, ipc_closed, now, received>>

\* A variant of EmitUpdate with the fault of an emit that hands the signal to
\* State.got_signal, which goes on to the rules of the emitted signal: C9
\* does not hold of it.
EmitUpdate_dispatching ==
  /\ main.pc = "emit_update"
  /\ _update_report_state(main.emit_signal, VStr(main.emit_value))
  /\ main' = IF main.emit_signal \in DOMAIN state.rules
             THEN [Locals EXCEPT !.pc = "rule", !.signal = main.emit_signal,
                                 !.value = VStr(main.emit_value), !.idx = 1]
             ELSE IF main.ret = "rule" THEN NextRule
             ELSE [main EXCEPT !.pc = main.ret, !.emit_signal = <<>>,
                               !.emit_value = <<>>, !.ret = ""]
  /\ TreeUnchanged
  /\ UNCHANGED <<args, threads, ipc_sent, ipc_closed, now, received>>

\* emit(), third statement, on the main thread, and the return to the caller
EmitUpdate ==
  /\ main.pc = "emit_update"
  /\ _update_report_state(main.emit_signal, VStr(main.emit_value))
  /\ main' = IF main.ret = "rule" THEN NextRule
             ELSE [main EXCEPT !.pc = main.ret, !.emit_signal = <<>>,
                               !.emit_value = <<>>, !.ret = ""]
  /\ TreeUnchanged
  /\ UNCHANGED <<args, threads, ipc_sent, ipc_closed, now, received>>

\* ----------------------------------------------------------- timer threads
MainUnchanged ==
  UNCHANGED <<args, variables, monitor_init_time_ms, next_grandchild_index,
              threads, ipc_sent, ipc_closed, now, received, main>>

\* Timer.run: the interval is over and cancel() has not been called, so the
\* function is called: start_timeout_func or stop_timeout_func.
TimerFires(t) ==
  /\ timers[t].st = "waiting"
  /\ now >= timers[t].deadline
  /\ timers' = [timers EXCEPT ![t].st =
                  IF timers[t].kind = "start" THEN "start_timeout_func"
                  ELSE "monitor_start"]
  /\ MainUnchanged
  /\ UNCHANGED <<condition_met, start_timer, stop_timer, log>>

\* TreeNode.start_timeout_func, `if not self.condition_met:`
StartTimeoutFunc(t) ==
  /\ timers[t].st = "start_timeout_func"
  /\ timers' = Collect([timers EXCEPT ![t].st =
                          IF ~condition_met[timers[t].node] THEN "start_timeout_call"
                          ELSE "finished"],
                       start_timer, stop_timer)
  /\ MainUnchanged
  /\ UNCHANGED <<condition_met, start_timer, stop_timer, log>>

\* TreeNode.start_timeout_func, the call `self._monitor_completed(
\* self.condition_met, ...)`: the flag is read a second time.
StartTimeoutCall(t) ==
  /\ timers[t].st = "start_timeout_call"
  /\ timers' = [timers EXCEPT ![t].st = "monitor_start",
                              ![t].succeeded = condition_met[timers[t].node]]
  /\ MainUnchanged
  /\ UNCHANGED <<condition_met, start_timer, stop_timer, log>>

\* TreeNode._monitor_completed on a timer thread, first `if`
TimerMonitorStart(t) ==
  /\ timers[t].st = "monitor_start"
  /\ start_timer' = [start_timer EXCEPT ![timers[t].node] = None]
  /\ timers' = Collect([Cancelled(timers, start_timer[timers[t].node])
                          EXCEPT ![t].st = "monitor_stop"],
                       start_timer', stop_timer)
  /\ MainUnchanged
  /\ UNCHANGED <<condition_met, stop_timer, log>>

\* TreeNode._monitor_completed on a timer thread, second `if`
TimerMonitorStop(t) ==
  /\ timers[t].st = "monitor_stop"
  /\ stop_timer' = [stop_timer EXCEPT ![timers[t].node] = None]
  /\ timers' = Collect([Cancelled(timers, stop_timer[timers[t].node])
                          EXCEPT ![t].st = IF timers[t].succeeded THEN "finished"
                                           ELSE "monitor_failed"],
                       start_timer, stop_timer')
  /\ MainUnchanged
  /\ UNCHANGED <<condition_met, start_timer, log>>

\* TreeNode._monitor_completed on a timer thread, `if not succeeded:`
TimerMonitorFailed(t) ==
  /\ timers[t].st = "monitor_failed"
  /\ condition_met' = [condition_met EXCEPT ![timers[t].node] = FALSE]
  /\ log' = Append(log, LogError("condition not met by 'start' time", timers[t].node))
  /\ timers' = Collect([timers EXCEPT ![t].st = "finished"], start_timer, stop_timer)
  /\ MainUnchanged
  /\ UNCHANGED <<start_timer, stop_timer>>

\* ---------------------------------------------------- delayed emit threads
\* delayed_emit: time.sleep(delay/1000) is over
ThreadWakes(e) ==
  /\ threads[e].pc = "sleep"
  /\ now >= threads[e].wake
  /\ threads' = [threads EXCEPT ![e].pc = "emit_log"]
  /\ TreeUnchanged
  /\ UNCHANGED <<args, variables, log, ipc_sent, ipc_closed, now, received, main>>

\* emit(), first statement, on a delayed emit thread
ThreadEmitLog(e) ==
  /\ threads[e].pc = "emit_log"
  /\ log' = Append(log, LogSignal(SIGNAL_PREFIX_OUTGOING, threads[e].signal,
                                  VStr(threads[e].value)))
  /\ threads' = [threads EXCEPT ![e].pc = "emit_send"]
  /\ TreeUnchanged
  /\ UNCHANGED <<args, variables, ipc_sent, ipc_closed, now, received, main>>

\* emit(), second statement, on a delayed emit thread
ThreadEmitSend(e) ==
  /\ threads[e].pc = "emit_send"
  /\ ipc_sent' = Append(ipc_sent, <<threads[e].signal, VStr(threads[e].value)>>)
  /\ threads' = [threads EXCEPT ![e].pc = "emit_update"]
  /\ TreeUnchanged
  /\ UNCHANGED <<args, variables, log, ipc_closed, now, received, main>>

\* emit(), third statement, on a delayed emit thread
ThreadEmitUpdate(e) ==
  /\ threads[e].pc = "emit_update"
  /\ _update_report_state(threads[e].signal, VStr(threads[e].value))
  /\ threads' = [threads EXCEPT ![e].pc = "finished"]
  /\ TreeUnchanged
  /\ UNCHANGED <<args, ipc_sent, ipc_closed, now, received, main>>

\* -------------------------------------------------------------- log replay
\* The file of --replay-log-file: lines of a log that an earlier run with the
\* simple rules wrote (`> 0,w,9,1` and so on), one of them with a ',' in its
\* value, one with a time that was damaged.  An outgoing value of a log is the
\* text that a rule emitted.
ReplayLog ==
  << <<">", " ", "0", ",", "w", ",", "9", ",", "1">>,
     <<"S", "t", "a", "t", "e", " ", "=", " ", "{">>,
     <<"<", " ", "1", ",", "w", ",", "9", ",", "'", "o", "n", "'">>,
     <<">", " ", "1", ",", "w", ",", "9", ",", "'", "a", ",", "b", "'">>,
     <<"}">>,
     <<">", " ", "x", ",", "w", ",", "9", ",", "0">>,
     <<">", " ", "2", ",", "i", "g", ",", "9", ",", "T", "r", "u", "e">> >>

\* repr(value), the last field of a signal line of the log
repr(value) ==
  IF value.t = "str"
  THEN (IF FirstIndex(value.v, "'") # 0 /\ FirstIndex(value.v, "\"") = 0
        THEN <<"\"">> \o value.v \o <<"\"">>
        ELSE <<"'">> \o value.v \o <<"'">>)
  ELSE StrOf(value)

\* A variant of eval with the fault of a replayer that takes the field as it
\* is, a text: C17 does not hold of it.
eval_as_text(text) == Ok(VStr(text))

\* eval(value) of the last field of a line: a literal of one of the four
\* types, or an exception that is no ValueError.
eval(text) ==
  IF /\ Len(text) >= 2 /\ text[1] \in {"'", "\""} /\ text[Len(text)] = text[1]
     /\ FirstIndex(SubSeq(text, 2, Len(text) - 1), text[1]) = 0
  THEN Ok(VStr(SubSeq(text, 2, Len(text) - 1)))
  ELSE IF text \in {TrueText, FalseText} THEN Ok(VBool(text = TrueText))
  ELSE IF isnumeric(text) /\ (Len(text) = 1 \/ text[1] # "0") THEN Ok(VInt(DigitsToInt(text)))
  ELSE IF FloatParses(text) THEN Ok(VFloat(FloatTenths(text)))
  ELSE NameError

\* LogReplayer.__parse_replay_log_line: nothing for a line that is no signal
\* line, the Signal of a signal line, the error that is logged for a line
\* with the wrong number of fields or a time that is no integer, or the
\* exception of eval.
DIRECTION_IN == "in"
DIRECTION_OUT == "out"
parse_replay_log_line(line) ==
  IF FirstIndex(line, " ") = 0 THEN [k |-> "skip"]
  ELSE LET prefix == SubSeq(line, 1, FirstIndex(line, " ") - 1)
           remainder == split(SubSeq(line, FirstIndex(line, " ") + 1, Len(line)), ",")
       IN IF prefix \notin {<<SIGNAL_PREFIX_INCOMING>>, <<SIGNAL_PREFIX_OUTGOING>>}
          THEN [k |-> "skip"]
          ELSE IF Len(remainder) # 4 \/ ~isnumeric(remainder[1])
          THEN [k |-> "error", line |-> line]
          ELSE IF eval(remainder[4]).k # "ok" THEN [k |-> "raise"]
          ELSE [k |-> "signal",
                direction |-> IF prefix = <<SIGNAL_PREFIX_INCOMING>>
                              THEN DIRECTION_IN ELSE DIRECTION_OUT,
                time_ms |-> DigitsToInt(remainder[1]), name |-> remainder[2],
                value |-> eval(remainder[4]).v]

\* LogReplayer.__init__, the loop over the lines of the file: the list
\* self.signals, the errors logged, and whether a line raised.
RECURSIVE parse_replay_log(_, _)
parse_replay_log(lines, sofar) ==
  IF lines = <<>> \/ sofar.raised THEN sofar
  ELSE LET parsed == parse_replay_log_line(Head(lines))
       IN parse_replay_log(Tail(lines),
            CASE parsed.k = "skip" -> sofar
              [] parsed.k = "error" ->
                   [sofar EXCEPT !.errors = Append(@, LogError("failed to parse line",
                                                               parsed.line))]
              [] parsed.k = "raise" -> [sofar EXCEPT !.raised = TRUE]
              [] parsed.k = "signal" -> [sofar EXCEPT !.signals = Append(@, parsed)])

Replayed == parse_replay_log(ReplayLog, [signals |-> <<>>, errors |-> <<>>, raised |-> FALSE])

\* LogReplayer.__init__, the file is read
LogReplayerParse ==
  /\ main.pc = "replay_parse"
  /\ log' = log \o Replayed.errors
  /\ main' = IF Replayed.raised
             THEN [main EXCEPT !.pc = "crashed", !.raised = "NameError"]
             ELSE [main EXCEPT !.pc = "replay", !.i = 1]
  /\ TreeUnchanged
  /\ UNCHANGED <<args, variables, threads, ipc_sent, ipc_closed, now, received>>

\* LogReplayer.__init__, `for signal in self.signals`: the delay that remains
\* (the replay rate is 100 %), and the call of time.sleep
ReplayDelay ==
  /\ main.pc = "replay"
  /\ main.i <= Len(Replayed.signals)
  /\ LET scaled_delay_ms == Replayed.signals[main.i].time_ms
         remaining_delay_ms == IF scaled_delay_ms - now > 0 THEN scaled_delay_ms - now ELSE 0
     IN main' = [main EXCEPT !.pc = "replay_sleep", !.wake = now + remaining_delay_ms]
  /\ TreeUnchanged
  /\ UNCHANGED <<args, variables, threads, log, ipc_sent, ipc_closed, now, received>>

\* delayed_got_signal after its sleep: show(), and the first line of
\* State.got_signal_record; or delayed_emit after its sleep, which calls emit
ReplayWakes ==
  /\ main.pc = "replay_sleep"
  /\ now >= main.wake
  /\ LET signal == Replayed.signals[main.i]
     IN IF signal.direction = DIRECTION_IN
        THEN /\ log' = Append(log, LogSignal(SIGNAL_PREFIX_INCOMING, signal.name,
                                             signal.value))
             /\ main' = [main EXCEPT !.pc = "replay_update", !.signal = signal.name,
                                     !.value = signal.value]
        ELSE /\ main' = [main EXCEPT !.pc = "emit_log", !.i = @ + 1,
                                     !.emit_signal = signal.name,
                                     !.emit_value = signal.value.v, !.ret = "replay"]
             /\ UNCHANGED log
  /\ TreeUnchanged
  /\ UNCHANGED <<args, variables, threads, ipc_sent, ipc_closed, now, received>>

\* A variant of ReplayUpdate with the fault of a delayed_got_signal that calls
\* State.got_signal, which goes on to the rules of the signal: C16 does not
\* hold of it.
ReplayUpdate_dispatching ==
  /\ main.pc = "replay_update"
  /\ _update_report_state(main.signal, main.value)
  /\ main' = IF main.signal \in DOMAIN state.rules
             THEN [main EXCEPT !.pc = "rule", !.idx = 1]
             ELSE [Locals EXCEPT !.pc = "replay", !.i = main.i + 1]
  /\ TreeUnchanged
  /\ UNCHANGED <<args, threads, ipc_sent, ipc_closed, now, received>>

\* State.got_signal_record called by delayed_got_signal, second line
ReplayUpdate ==
  /\ main.pc = "replay_update"
  /\ _update_report_state(main.signal, main.value)
  /\ main' = [Locals EXCEPT !.pc = "replay", !.i = main.i + 1]
  /\ TreeUnchanged
  /\ UNCHANGED <<args, threads, ipc_sent, ipc_closed, now, received>>

\* The log is replayed: the main program calls run(state).
ReplayEnds ==
  /\ main.pc = "replay"
  /\ main.i > Len(Replayed.signals)
  /\ main' = Locals
  /\ TreeUnchanged
  /\ UNCHANGED <<args, variables, threads, log, ipc_sent, ipc_closed, now, received>>

\* One millisecond passes.
Tick ==
  /\ now < MaxTime
  /\ now' = now + 1
  /\ TreeUnchanged
  /\ UNCHANGED <<args, variables, threads, log, ipc_sent, ipc_closed, received, main>>

MainStep ==
  \/ SeedState \/ ExecQueue \/ StartRun \/ Receive \/ UpdateState \/ Rule
  \/ NotifyCondition \/ NotifyTrue \/ NotifyFalse \/ NotifyFalseMonitor
  \/ MonitorStart \/ MonitorStop \/ MonitorFailed
  \/ NotifyAncestorCondition \/ StartStopTimer \/ SequenceIterate
  \/ Ancestors \/ ConditionLog \/ EmitLog \/ EmitSend \/ EmitUpdate
  \/ LogReplayerParse \/ ReplayDelay \/ ReplayWakes \/ ReplayUpdate \/ ReplayEnds

TimerStep ==
  \E t \in 1..Len(timers) :
    \/ TimerFires(t) \/ StartTimeoutFunc(t) \/ StartTimeoutCall(t)
    \/ TimerMonitorStart(t) \/ TimerMonitorStop(t) \/ TimerMonitorFailed(t)

ThreadStep ==
  \E e \in 1..Len(threads) :
    \/ ThreadWakes(e) \/ ThreadEmitLog(e) \/ ThreadEmitSend(e) \/ ThreadEmitUpdate(e)

Next == MainStep \/ TimerStep \/ ThreadStep \/ Tick

Spec == Init /\ [][Next]_vars

\* The runs of Spec and the runs with --no-log-condition-checks.
SpecNoLog == InitNoLog /\ [][Next]_vars

\* ================================================================= claims
\* Every ancestor condition of n has its condition_met flag set.
AncestorsMet(n) ==
  \A k \in 1..Len(get_ancestor_conditions(config_tree, n)) :
    condition_met[get_ancestor_conditions(config_tree, n)[k]]

\* The rule of condition n has an inline emit.
HasEmit(n) == state.code[config_tree[n].rule].emit_signal \notin {NoneText, <<>>}

\* The main thread is inside emit(), called by the rule of a condition.
InlineEmit == main.pc \in {"emit_log", "emit_send"} /\ main.ret = "rule"

\* The block of sequence s that next_grandchild_index designates.
NextBlock(s) == config_tree[s].children[next_grandchild_index[s] + 1]

\* C1: whenever the rule of a condition performs its inline emit, its
\* expression has just evaluated true and the condition_met flag of every
\* ancestor condition is true at the moment of the emission.
C1_EmitImpliesAncestorsMet ==
  InlineEmit => (main.result /\ AncestorsMet(main.node))

\* C2: an execution of a rule whose expression is true while every ancestor
\* is met performs the inline emit, once, whether or not the condition was
\* met before; an execution whose expression is false emits nothing.
C2_EmitsOnEveryTrueEvaluation ==
  [][/\ (main.pc = "condition_log" /\ main' # main) =>
          /\ (main.result /\ AncestorsMet(main.node) /\ HasEmit(main.node)) =>
                /\ main'.pc = "emit_log" /\ main'.ret = "rule"
                /\ main'.emit_signal = state.code[config_tree[main.node].rule].emit_signal
                /\ main'.emit_value = state.code[config_tree[main.node].rule].emit_value
          /\ ~main.result => main'.pc \in {"rule", "receive"}
     /\ (main.pc = "emit_log" /\ main.ret = "rule" /\ main' # main) =>
          (main'.pc = "emit_send" /\ ipc_sent' = ipc_sent)
     /\ (main.pc = "emit_send" /\ main.ret = "rule" /\ main' # main) =>
          /\ ipc_sent' = Append(ipc_sent, <<main.emit_signal, VStr(main.emit_value)>>)
          /\ main'.pc = "emit_update"
     /\ (main.pc = "emit_update" /\ main.ret = "rule" /\ main' # main) =>
          (main'.pc \in {"rule", "receive"} /\ ipc_sent' = ipc_sent)
     /\ (main.pc \notin {"emit_send", "receive"} /\ main' # main) =>
          ipc_sent' = ipc_sent]_vars

\* The second reception of transmission_gear = 'reverse' in a row: the parent
\* condition, met since the first, is evaluated true again and emits again.
C2_Witness ==
  /\ args.rules = "monitored" /\ received = 2
  /\ main.pc = "emit_send" /\ main.ret = "rule"
  /\ config_tree[main.node].signals = <<transmission_gear>>
  /\ condition_met[main.node]
  /\ Has(variables, lights_external_backup)

\* The main thread ends the dispatch of a received signal.
DispatchEnds ==
  /\ main.pc \notin {"initial_state", "exec_queue", "replay", "receive", "crashed", "exited"}
  /\ main'.pc = "receive"

\* The State dump at the end of `log` lists every signal of `items`, sorted
\* by name, and shows signal = value.
DumpLists(dump, items, signal, value) ==
  /\ dump.k = "State"
  /\ Len(dump.lines) = Len(items)
  /\ \A i \in 1..Len(items) : \E j \in 1..Len(dump.lines) : dump.lines[j][1] = items[i][1]
  /\ \A j \in 1..(Len(dump.lines) - 1) : StrLess(dump.lines[j][1], dump.lines[j + 1][1])
  /\ \E j \in 1..Len(dump.lines) : dump.lines[j] = <<signal, StrOf(value)>>

\* The value of the last emission of `signal` that `lines` records, if any.
LastEmitted(lines, signal) ==
  LET out == {i \in 1..Len(lines) :
                /\ lines[i].k = "signal"
                /\ lines[i].indicator = SIGNAL_PREFIX_OUTGOING
                /\ lines[i].signal = signal}
  IN IF out = {} THEN NoValue
     ELSE lines[CHOOSE i \in out : \A j \in out : j <= i].value

C4_SequenceGate ==
  [][/\ (main.pc = "rule" /\ main' # main) =>
          LET matches == get_conditions_by_rule(config_tree, 1,
                                                state.rules[main.signal][main.idx])
          IN \A k \in 1..Len(matches) :
               LET s == condition_get_sequence_grandparent(config_tree, matches[k])
               IN s # None =>
                    ((log' = log) <=> (config_tree[matches[k]].parent = NextBlock(s)))
     /\ (main.pc = "subconditions" /\ main'.pc = "ancestors") =>
          LET s == condition_get_sequence_grandparent(config_tree, main.node)
          IN s # None =>
               next_grandchild_index'[s] =
                 (next_grandchild_index[s] + 1) % Len(config_tree[s].children)]_vars

\* C5: a received signal that a sequence-blocked condition references is
\* recorded in the State and logged as ignored, and the rule is skipped (no
\* condition line, condition_met, sequence index and sink unchanged); when
\* the signal comes again in its turn, after the signal of the block before,
\* the rule is executed.
C5_BlockedRuleSkipped ==
  [][(main.pc = "rule" /\ main' # main) =>
       LET matches == get_conditions_by_rule(config_tree, 1,
                                             state.rules[main.signal][main.idx])
       IN \A k \in 1..Len(matches) :
            LET s == condition_get_sequence_grandparent(config_tree, matches[k])
            IN s # None =>
                 IF config_tree[matches[k]].parent = NextBlock(s)
                 THEN log' = log
                 ELSE /\ Get(variables, main.signal) = main.value
                      /\ log' = Append(log, LogError("changed value ignored", main.signal))
                      /\ main' = NextRule
                      /\ UNCHANGED <<variables, condition_met, next_grandchild_index,
                                     ipc_sent, start_timer, stop_timer, timers>>]_vars

\* C6: when start_timer fires on an armed subcondition whose condition_met
\* is false, the monitor fails: the callback reports the failure (the line is
\* logged once), and at that point both timers are cleared, condition_met is
\* false and the subcondition is not emitting.
C6_StartTimeoutFails ==
  [][\A t \in 1..Len(timers) :
       LET n == timers[t].node
       IN /\ (timers[t].kind = "start" /\ timers[t].st = "start_timeout_call"
              /\ timers'[t] # timers[t]) => ~timers'[t].succeeded
          /\ (timers[t].kind = "start" /\ timers[t].st = "monitor_failed"
              /\ (t > Len(timers') \/ timers'[t] # timers[t])) =>
               /\ log' = Append(log, LogError("condition not met by 'start' time", n))
               /\ start_timer'[n] = None /\ stop_timer'[n] = None
               /\ ~condition_met'[n]
               /\ ~(InlineEmit /\ main.node = n)]_vars

\* C7: no monitor failure is logged for an activation in which the
\* expression of the armed subcondition evaluated true before the start
\* deadline; the stop_timer callback cancels start_timer and clears both
\* handles.
C7_MetInTimeNeverFails ==
  [][\A t \in 1..Len(timers) :
       LET n == timers[t].node
       IN /\ (timers[t].kind = "start" /\ timers[t].st = "monitor_failed"
              /\ timers[t].deadline = start_max_ms(n)) =>
               ~(/\ main.node = n /\ main.result
                 /\ main.pc \in {"notify_true", "subconditions", "start_stop_timer",
                                 "ancestors", "condition_log", "emit_log", "emit_send",
                                 "emit_update"}
                 /\ main.runtime < start_max_ms(n))
          /\ (timers[t].kind = "stop" /\ timers[t].st = "monitor_stop"
              /\ (t > Len(timers') \/ timers'[t] # timers[t])) =>
               (start_timer'[n] = None /\ stop_timer'[n] = None)]_vars

\* C8: when the parent of an armed subcondition is evaluated false, the
\* timers of the subcondition are cancelled and cleared and no failure is
\* logged, then or afterwards: once cancelled, start_timer is in no callback
\* that could still report.
C8_CancelledMonitorIsSilent ==
  [][(/\ main.pc \in {"monitor_start", "monitor_stop"}
      /\ main.succeeded /\ main.failure_message = ""
      /\ main' # main) =>
       LET n == main.mc_node
           t == IF main.pc = "monitor_start" THEN start_timer[n] ELSE stop_timer[n]
       IN /\ log' = log
          /\ (main.pc = "monitor_start" => start_timer'[n] = None)
          /\ (main.pc = "monitor_stop" => stop_timer'[n] = None)
          /\ (t # None /\ t <= Len(timers')) => Dead(timers'[t])
          /\ (t = None) => timers' = timers]_vars

\* C9: emit logs the '<' line, sends to the sink and updates the State with
\* its dump, in this order, on whichever thread it runs, then returns to its
\* caller: no rule is evaluated for the emitted signal, and no condition_met,
\* timer or sequence index changes.
C9_EmitOrderAndFrame ==
  [][/\ (main.pc = "emit_log" /\ main' # main) =>
          /\ log' = Append(log, LogSignal(SIGNAL_PREFIX_OUTGOING, main.emit_signal,
                                          VStr(main.emit_value)))
          /\ main'.pc = "emit_send"
          /\ UNCHANGED <<ipc_sent, variables>>
     /\ (main.pc = "emit_send" /\ main' # main) =>
          /\ ipc_sent' = Append(ipc_sent, <<main.emit_signal, VStr(main.emit_value)>>)
          /\ main'.pc = "emit_update"
          /\ UNCHANGED <<log, variables>>
     /\ (main.pc = "emit_update" /\ main' # main) =>
          /\ variables' = SetItem(variables, main.emit_signal, VStr(main.emit_value))
          /\ log' = Append(log, StateDump(variables'))
          /\ main' = IF main.ret = "rule" THEN NextRule
                     ELSE [main EXCEPT !.pc = main.ret, !.emit_signal = <<>>,
                                       !.emit_value = <<>>, !.ret = ""]
          /\ UNCHANGED ipc_sent
     /\ (main.pc \in {"emit_log", "emit_send", "emit_update"} /\ main' # main) =>
          UNCHANGED <<condition_met, start_timer, stop_timer, timers,
                      monitor_init_time_ms, next_grandchild_index>>
     /\ \A e \in 1..Len(threads) :
          /\ (threads[e].pc = "emit_log" /\ threads'[e] # threads[e]) =>
               /\ log' = Append(log, LogSignal(SIGNAL_PREFIX_OUTGOING, threads[e].signal,
                                               VStr(threads[e].value)))
               /\ threads'[e].pc = "emit_send"
               /\ UNCHANGED <<ipc_sent, variables>>
          /\ (threads[e].pc = "emit_send" /\ threads'[e] # threads[e]) =>
               /\ ipc_sent' = Append(ipc_sent, <<threads[e].signal, VStr(threads[e].value)>>)
               /\ threads'[e].pc = "emit_update"
               /\ UNCHANGED <<log, variables>>
          /\ (threads[e].pc = "emit_update" /\ threads'[e] # threads[e]) =>
               /\ variables' = SetItem(variables, threads[e].signal, VStr(threads[e].value))
               /\ log' = Append(log, StateDump(variables'))
               /\ threads'[e].pc = "finished"
               /\ UNCHANGED ipc_sent
          /\ (threads[e].pc \in {"emit_log", "emit_send", "emit_update"}
              /\ threads'[e] # threads[e]) =>
               UNCHANGED <<main, condition_met, start_timer, stop_timer, timers,
                           monitor_init_time_ms, next_grandchild_index>>]_vars

\* The rule `wipers == 1` is about to record its emission of wipers = 'on'
\* in the State: wipers is the signal its own condition, and the condition
\* of another rule, reference.
C9_Witness ==
  /\ args.rules = "simple"
  /\ main.pc = "emit_update" /\ main.emit_signal = wipers
  /\ ipc_sent # <<>>
  /\ \E n \in ConditionNodes :
       n # main.node /\ \E k \in 1..Len(config_tree[n].signals) :
                          config_tree[n].signals[k] = wipers

\* C10: condition_met of a node goes from false to true only in the
\* execution of the rule of this node, where its expression evaluated true:
\* in no timer callback, notification of a parent, emit or other step.
C10_MetOnlyByOwnRule ==
  [][\A n \in ConditionNodes :
       (~condition_met[n] /\ condition_met'[n]) =>
          /\ main.pc = "notify_true" /\ main.node = n /\ main.result
          /\ main'.pc = "subconditions"
          /\ config_tree[n].rule = state.rules[main.signal][main.idx]]_vars

\* A monitored subcondition has been set to true by its own rule after the
\* callback of its start_timer had set it to false.
C10_Witness ==
  /\ args.rules = "monitored"
  /\ main.pc = "subconditions" /\ main.result /\ condition_met[main.node]
  /\ config_tree[main.node].signals = <<camera_backup_active>>
  /\ \E i \in 1..Len(log) :
       log[i] = LogError("condition not met by 'start' time", main.node)

\* The main thread takes the step of got_signal that gates and executes the
\* rule at main.idx.
RuleStep == main.pc = "rule" /\ main' # main
RuleAtIdx == state.rules[main.signal][main.idx]
RuleGated == Blocked(RuleAtIdx) \/ GateRaises(RuleAtIdx)
RuleNode == state.code[RuleAtIdx].node_ref
Absent(signal) == ~Has(variables, signal)

\* The rule is skipped without a trace.
RuleSkipped ==
  /\ main' = NextRule
  /\ UNCHANGED <<log, variables, condition_met, next_grandchild_index, ipc_sent,
                 start_timer, stop_timer, timers>>

\* The evaluation of e, left to right, `and` and `or` deciding on their left
\* operand when they can, comes to a name that env does not hold.
RECURSIVE ReachesAbsent(_, _)
ReachesAbsent(e, env) ==
  CASE e.op = "name" -> Undot(e.id) \notin DOMAIN env
    [] e.op = "const" -> FALSE
    [] e.op = "not" -> ReachesAbsent(e.e, env)
    [] e.op = "and" ->
         \/ ReachesAbsent(e.l, env)
         \/ Eval(e.l, env).k = "ok" /\ Truthy(Eval(e.l, env).v) /\ ReachesAbsent(e.r, env)
    [] e.op = "or" ->
         \/ ReachesAbsent(e.l, env)
         \/ Eval(e.l, env).k = "ok" /\ ~Truthy(Eval(e.l, env).v) /\ ReachesAbsent(e.r, env)
    [] OTHER -> ReachesAbsent(e.l, env) \/ ReachesAbsent(e.r, env)

\* C11, as the specification states it: a rule whose condition references a
\* signal that the State does not hold is skipped: no condition line,
\* condition_met unchanged, nothing emitted, no sequence index advanced.
C11_AbsentSignalSkipsRule ==
  [][(RuleStep /\ ~RuleGated
      /\ \E k \in 1..Len(config_tree[RuleNode].signals) :
           Absent(config_tree[RuleNode].signals[k])) => RuleSkipped]_vars

\* C11, amended: the rule is skipped when the evaluation of its condition,
\* left to right with `and` and `or` deciding on their left operand when they
\* can, comes to a signal that the State does not hold (the leftmost signal
\* of the condition is always come to); otherwise the rule is executed, with
\* the result that the operands before the absent signal decide.
C11_AbsentSignalReachedSkipsRule ==
  [][(RuleStep /\ ~RuleGated) =>
       LET expr == state.code[RuleAtIdx].expr
           env == _undot_variables(variables)
       IN /\ ReachesAbsent(expr, env) => RuleSkipped
          /\ Absent(config_tree[RuleNode].signals[1]) => ReachesAbsent(expr, env)
          /\ ~ReachesAbsent(expr, env) =>
               \/ main'.pc = "crashed" /\ main'.raised = "TypeError"
               \/ /\ main'.pc = "notify_condition" /\ main'.node = RuleNode
                  /\ main'.result = Truthy(Eval(expr, env).v)]_vars

\* The dispatch of wipers = 1 has ended while ignition was never seen: the
\* rule `wipers == 1` was executed, the rule `ignition != True and wipers > 0`
\* left no condition line.
C11_Witness ==
  /\ args.rules = "simple" /\ main.pc = "receive"
  /\ log # <<>> /\ log[1] = LogSignal(SIGNAL_PREFIX_INCOMING, wipers, VInt(1))
  /\ Absent(ignition)
  /\ \E n \in ConditionNodes :
       /\ config_tree[n].signals = <<ignition, wipers>>
       /\ \A i \in 1..Len(log) : log[i] # LogCondition(n, TRUE) /\ log[i] # LogCondition(n, FALSE)
  /\ \E n \in ConditionNodes :
       /\ config_tree[n].signals = <<wipers>>
       /\ \E i \in 1..Len(log) : log[i] = LogCondition(n, TRUE)

\* The main thread is in State.__init__, or in an emit that exec_queue called.
InConstructor == main.pc \in {"initial_state", "exec_queue"} \/ main.ret = "exec_queue"

\* Every signal of the initial state file is in the State.
Seeded ==
  args.initial_state => \A i \in 1..Len(InitialState) : Has(variables, InitialState[i][1])

\* C12: every unconditional emit of the rules file is executed once, in the
\* order of the file, after the rules are parsed and the initial state is
\* seeded; no received signal executes it again; none is executed when a log
\* is replayed.
C12_UnconditionalEmitsRunOnce ==
  [][/\ (main.pc = "initial_state" /\ main' # main) =>
          (main'.pc = "exec_queue" /\ main'.i = 1 /\ threads = <<>> /\ log' = <<>>)
     /\ (main.pc = "exec_queue" \/ main.ret = "exec_queue") => Seeded
     /\ (main.pc = "exec_queue" /\ main' # main /\ main.i <= Len(state.exec_queue)) =>
          LET action == state.exec_queue[main.i]
          IN /\ main'.i = main.i + 1
             /\ IF action.delayed
                THEN /\ Len(threads') = Len(threads) + 1
                     /\ threads'[Len(threads')].signal = action.signal
                     /\ threads'[Len(threads')].value = action.value
                     /\ main'.pc = "exec_queue"
                ELSE /\ main'.pc = "emit_log" /\ main'.ret = "exec_queue"
                     /\ main'.emit_signal = action.signal
                     /\ main'.emit_value = action.value
                     /\ threads' = threads
     /\ (main.ret = "exec_queue" /\ main' # main) =>
          (main'.i = main.i /\ (main'.ret = "exec_queue" \/ main'.pc = "exec_queue"))
     /\ ~InConstructor => (~InConstructor' /\ Len(threads') = Len(threads))
     /\ Len(state.exec_queue) =
          IF args.replaying THEN 0
          ELSE Cardinality({i \in 1..Len(RuleFiles[args.rules]) :
                              /\ NODE_EMIT \in DOMAIN RuleFiles[args.rules][i]
                              /\ NODE_CONDITION \notin DOMAIN RuleFiles[args.rules][i]})
     /\ args.replaying => (threads' = <<>> /\ main'.ret # "exec_queue")]_vars

\* A run with an initial state has dispatched two received signals: the
\* State holds the seeded signal and the signal of the unconditional emit,
\* and the log of the second dispatch holds no emission of that signal.
C12_Witness ==
  /\ args.rules = "unconditional" /\ args.initial_state
  /\ main.pc = "receive" /\ received = 2
  /\ Has(variables, ignition) /\ Has(variables, lock_state)
  /\ log # <<>> /\ log[1].k = "signal"
  /\ LastEmitted(log, lock_state) = NoValue

\* The main thread takes the step of run() that receives a message.
ReceiveStep == main.pc = "receive" /\ received' = received + 1

\* C13: the incoming signal `quit` closes the sink and ends the run loop
\* normally, no message is dispatched after it, and a None receive is
\* skipped: the loop goes on receiving.
C13_QuitClosesAndEnds ==
  [][/\ (ReceiveStep /\ main'.signal = quit) => (ipc_closed' /\ main'.pc = "exited")
     /\ main.pc \in {"exited", "crashed"} => (main' = main /\ received' = received)
     /\ (ReceiveStep /\ log' = <<LogInfo("skipping invalid message")>>) =>
          (main' = main /\ UNCHANGED <<variables, condition_met, ipc_closed>>)]_vars

\* C14: a message whose value is of none of the four types, or that is no
\* pair of a name and a value, is logged and dropped: the State, the
\* condition_met flags and the sequence indices are unchanged and the run
\* loop is at the next receive.
C14_IngestErrorsDropped ==
  [][(/\ ReceiveStep
      /\ main'.pc \notin {"update_state", "exited"} /\ main'.signal # quit
      /\ log' # <<LogInfo("skipping invalid message")>>) =>
       /\ main' = main
       /\ Len(log') = 1 /\ log'[1].k = "error"
       /\ UNCHANGED <<variables, condition_met, next_grandchild_index>>]_vars

\* Condition n is in a block of a parallel wrapper.
UnderParallel(n) ==
  /\ config_tree[n].parent # None /\ config_tree[config_tree[n].parent].parent # None
  /\ config_tree[config_tree[config_tree[n].parent].parent].node_type = NODE_PARALLEL

\* C15: the conditions under a parallel wrapper do not gate one another: on
\* a received signal that such a condition references its rule is executed
\* whatever the other conditions of the wrapper are, no condition of the
\* wrapper is among its ancestors, and it emits when it is true and its
\* ancestors are met.
C15_ParallelNotGated ==
  [][/\ (RuleStep /\ UnderParallel(RuleNode)) =>
          /\ log' = log
          /\ ~ReachesAbsent(state.code[RuleAtIdx].expr, _undot_variables(variables)) =>
               \/ main'.pc = "crashed" /\ main'.raised = "TypeError"
               \/ main'.pc = "notify_condition" /\ main'.node = RuleNode
     /\ (main.pc = "ancestors" /\ UnderParallel(main.node) /\ main' # main) =>
          LET ancestors == get_ancestor_conditions(config_tree, main.node)
              siblings == wrapper_siblings(config_tree, main.node)
          IN /\ \A i \in 1..Len(ancestors), j \in 1..Len(siblings) : ancestors[i] # siblings[j]
             /\ main'.all_met = \A i \in 1..Len(ancestors) : condition_met[ancestors[i]]
     /\ (main.pc = "condition_log" /\ UnderParallel(main.node) /\ main' # main) =>
          ((main'.pc = "emit_log") <=> (main.result /\ main.all_met /\ HasEmit(main.node)))]_vars

\* The condition on wipers emits although the other condition of its
\* parallel wrapper is not met, its signal never seen.
C15_Witness ==
  /\ args.rules = "parallel"
  /\ main.pc = "emit_log" /\ main.ret = "rule"
  /\ config_tree[main.node].signals = <<wipers>>
  /\ Absent(transmission_gear)
  /\ \A j \in 1..Len(wrapper_siblings(config_tree, main.node)) :
       ~condition_met[wrapper_siblings(config_tree, main.node)[j]]
  /\ wrapper_siblings(config_tree, main.node) # <<>>

\* The main thread is in LogReplayer.__init__, or in an emit that it called.
InReplay ==
  main.pc \in {"replay_parse", "replay", "replay_sleep", "replay_update"} \/ main.ret = "replay"

\* C16: while a log is replayed, an incoming entry logs the reception and
\* updates the State and nothing more: no rule is executed, no condition_met
\* flag, timer or sequence index changes, nothing is emitted for it; an
\* outgoing entry is emitted as it is, no ancestor condition being read.
C16_ReplayExecutesNoRule ==
  [][/\ (main.pc = "replay_sleep" /\ main' # main) =>
          LET signal == Replayed.signals[main.i]
          IN IF signal.direction = DIRECTION_IN
             THEN /\ log' = Append(log, LogSignal(SIGNAL_PREFIX_INCOMING, signal.name,
                                                  signal.value))
                  /\ main'.pc = "replay_update"
                  /\ UNCHANGED <<variables, ipc_sent>>
             ELSE /\ main'.pc = "emit_log"
                  /\ main'.emit_signal = signal.name
                  /\ VStr(main'.emit_value) = signal.value
                  /\ UNCHANGED <<log, variables, ipc_sent>>
     /\ (main.pc = "replay_update" /\ main' # main) =>
          /\ variables' = SetItem(variables, main.signal, main.value)
          /\ log' = Append(log, StateDump(variables'))
          /\ main'.pc = "replay" /\ main'.i = main.i + 1
          /\ UNCHANGED ipc_sent
     /\ InReplay =>
          /\ main'.pc \in {"replay_parse", "replay", "replay_sleep", "replay_update", "emit_log",
                           "emit_send", "emit_update", "receive", "crashed"}
          /\ UNCHANGED <<condition_met, start_timer, stop_timer, timers,
                         monitor_init_time_ms, next_grandchild_index, threads>>
          /\ ipc_sent' # ipc_sent =>
               /\ main.pc = "emit_send"
               /\ Replayed.signals[main.i - 1].direction = DIRECTION_OUT
               /\ ipc_sent' = Append(ipc_sent, <<Replayed.signals[main.i - 1].name,
                                                 Replayed.signals[main.i - 1].value>>)]_vars

\* The log is replayed: the State holds the last value of every entry, the
\* one emission of the log was sent, and the rule `wipers == 1`, that the
\* incoming wipers = 1 would have executed, was not executed.
C16_Witness ==
  /\ args.replaying /\ main.pc = "receive" /\ received = 0
  /\ Get(variables, wipers) = VStr(<<"o", "n">>)
  /\ Get(variables, ignition) = VBool(TRUE)
  /\ ipc_sent = <<<<wipers, VStr(<<"o", "n">>)>>>>
  /\ \A n \in ConditionNodes :
       /\ ~condition_met[n]
       /\ \A i \in 1..Len(log) : log[i].k # "condition"
  /\ \E i \in 1..Len(log) : log[i] = LogSignal(SIGNAL_PREFIX_INCOMING, wipers, VInt(1))

\* The '>' and '<' lines among `lines`, each as the texts of its indicator,
\* of its signal name and of its value, as Logger.signal writes them.
RECURSIVE SignalEntries(_)
SignalEntries(lines) ==
  IF lines = <<>> THEN <<>>
  ELSE (IF Head(lines).k = "signal"
        THEN <<<<Head(lines).indicator, Head(lines).signal, repr(Head(lines).value)>>>>
        ELSE <<>>) \o SignalEntries(Tail(lines))

\* The same of the lines of a log file that are signal lines: an indicator,
\* a space, and four fields between commas of which the first is an integer.
RECURSIVE FileEntries(_)
FileEntries(file) ==
  IF file = <<>> THEN <<>>
  ELSE LET line == Head(file)
           space == FirstIndex(line, " ")
           fields == split(SubSeq(line, space + 1, Len(line)), ",")
       IN (IF /\ space = 2
              /\ line[1] \in {SIGNAL_PREFIX_INCOMING, SIGNAL_PREFIX_OUTGOING}
              /\ Len(fields) = 4 /\ isnumeric(fields[1])
           THEN <<<<line[1], fields[2], fields[4]>>>> ELSE <<>>)
            \o FileEntries(Tail(file))

IsPrefix(a, b) == Len(a) <= Len(b) /\ a = SubSeq(b, 1, Len(a))

EmitInProgress ==
  \/ main.pc \in {"emit_send", "emit_update"}
  \/ \E e \in 1..Len(threads) : threads[e].pc \in {"emit_send", "emit_update"}

\* The main thread writes the '>' line of a received signal, or the State
\* update and State dump of one.
ReceivedSignalStep ==
  \/ main.pc = "receive" /\ main'.pc = "update_state"
  \/ main.pc = "update_state" /\ main'.pc # "update_state"
  \/ main.pc = "replay_sleep" /\ main'.pc = "replay_update"
  \/ main.pc = "replay_update" /\ main'.pc # "replay_update"

\* C18: between the '<' line of an emit and the end of its State update and
\* State dump, no log line, State update or State dump of a received signal
\* is interleaved.
C18_EmitAtomicToReceives ==
  [][EmitInProgress => ~ReceivedSignalStep]_vars

\* The main thread is between two statements of a dispatch step of
\* State.condition_changed: inside TreeNode.notify_condition, inside a
\* notify_ancestor_condition or a _monitor_completed that it calls, or before
\* the test of the ancestors that comes before an emit.
InDispatchStep ==
  main.pc \in {"notify_true", "notify_false", "notify_false_monitor",
               "monitor_start", "monitor_stop", "monitor_failed",
               "subconditions", "start_stop_timer", "ancestors"}

\* The conditions whose runtime fields that dispatch step reads or writes.
DispatchedConditions ==
  {main.node, main.mc_node}
    \cup {find_subconditions(config_tree, main.node)[i] :
            i \in 1..Len(find_subconditions(config_tree, main.node))}
    \cup {get_ancestor_conditions(config_tree, main.node)[i] :
            i \in 1..Len(get_ancestor_conditions(config_tree, main.node))}

\* The thread of Timer t runs a statement of start_timeout_func, of
\* stop_timeout_func or of the _monitor_completed they call.
TimerCallbackStep(t) ==
  /\ timers[t].st \in {"start_timeout_func", "start_timeout_call",
                       "monitor_start", "monitor_stop", "monitor_failed"}
  /\ main' = main
  /\ t > Len(timers') \/ timers'[t].st # timers[t].st

\* C19: no callback of a monitor timer runs between two statements of a
\* dispatch step of the main loop that reads or writes the runtime fields of
\* the same condition.
C19_TimerCallbacksExcludeDispatch ==
  [][\A t \in 1..Len(timers) :
       (InDispatchStep /\ timers[t].node \in DispatchedConditions)
          => ~TimerCallbackStep(t)]_vars

\* The rule at main.idx was written with one `^^`; its two sides, each parsed
\* as a condition of its own, and what each evaluates to.
RuleIsXor ==
  /\ find_xor(state.code[RuleAtIdx].text)
  /\ Len(split(state.code[RuleAtIdx].text.tokens, XOR)) = 2
XorSide(k) ==
  Eval(ast_parse(Text(split(state.code[RuleAtIdx].text.tokens, XOR)[k])),
       _undot_variables(variables))
IsBoolean(outcome) == outcome.k = "ok" /\ outcome.v.t = "bool"

\* C20: a condition written `A ^^ B` is evaluated as (A) != (B), each side as
\* a whole: when A and B are boolean the condition is true exactly when one of
\* them is true and the other false; and the `condition:` line of the log
\* shows the text as it was written, with its ^^.
C20_XorIsInequalityOfSides ==
  [][/\ (RuleStep /\ RuleIsXor /\ ~RuleGated
           /\ IsBoolean(XorSide(1)) /\ IsBoolean(XorSide(2))) =>
          /\ main'.pc = "notify_condition"
          /\ main'.result = (XorSide(1).v.v # XorSide(2).v.v)
     /\ \A i \in 1..Len(log') :
          (log'[i].k = "condition" /\ find_xor(state.code[config_tree[log'[i].node].rule].text))
             => /\ log'[i].text = state.code[config_tree[log'[i].node].rule].text
                /\ FirstIndex(log'[i].text.tokens, XOR) # 0]_vars

\* Both sides of the ^^ are true, the condition was found false and its
\* line is in the log, with the ^^.
C20_Witness ==
  /\ args.rules = "xor"
  /\ Has(variables, phone_call) /\ Get(variables, phone_call) = VStr(active)
  /\ Has(variables, speed_value) /\ Get(variables, speed_value) = VFloat(600)
  /\ \E i \in 1..Len(log) :
       /\ log[i].k = "condition" /\ ~log[i].result
       /\ FirstIndex(log[i].text.tokens, XOR) # 0

\* The main thread writes the `condition:` line of a rule that was found
\* true and goes on to the inline emit of the rule.
ConditionLineOfEmittingRule ==
  /\ main.pc = "condition_log" /\ main' # main
  /\ main.result /\ main.all_met /\ HasEmit(main.node)

\* C21: for a rule with an immediate inline emit whose condition is found true
\* on a received signal, the '<' line of the emission and the State dump that
\* holds the emitted signal are in the log before the line
\* `condition: (...) => True`.
C21_EmissionBeforeConditionLine ==
  [][ConditionLineOfEmittingRule =>
       /\ Len(log) >= 4
       /\ log[Len(log) - 1] =
            LogSignal(SIGNAL_PREFIX_OUTGOING,
                      state.code[config_tree[main.node].rule].emit_signal,
                      VStr(state.code[config_tree[main.node].rule].emit_value))
       /\ log[Len(log)].k = "State"
       /\ log'[Len(log')] = LogCondition(main.node, TRUE)]_vars

\* How many entries of the sequence s are x.
Count(s, x) == Cardinality({i \in 1..Len(s) : s[i] = x})

\* The lines of the log that are the `condition:` line of node n, and those
\* that are the '<' line of its inline emit.
ConditionLines(lines, n) == {i \in 1..Len(lines) : lines[i].k = "condition" /\ lines[i].node = n}
EmissionLines(lines, n) ==
  {i \in 1..Len(lines) :
     lines[i] = LogSignal(SIGNAL_PREFIX_OUTGOING,
                          state.code[config_tree[n].rule].emit_signal,
                          VStr(state.code[config_tree[n].rule].emit_value))}

\* C22: the dependency index holds a rule once per occurrence of a signal in
\* the condition of the rule, and one reception of a signal that the
\* condition names k times executes the rule k times: k `condition:` lines
\* and, when the condition is true, k emissions.
C22_RuleStoredPerOccurrence ==
  [][/\ \A signal \in DOMAIN state.rules : \A rule \in 1..Len(state.code) :
          Count(state.rules[signal], rule)
            = Count(ParseIdentifiers(state.code[rule].expr), signal)
     /\ (DispatchEnds /\ args.rules = "subclauses" /\ main.signal = wipers) =>
          LET n == state.code[1].node_ref
              k == Count(ParseIdentifiers(state.code[1].expr), wipers)
          IN /\ k = 2
             /\ Cardinality(ConditionLines(log', n)) = k
             /\ Cardinality(EmissionLines(log', n)) = IF main.result THEN k ELSE 0]_vars

\* wipers = 1 was received: the rule, which names wipers twice, has written
\* its second `condition:` line and its second emission.
C22_Witness ==
  /\ args.rules = "subclauses"
  /\ Cardinality(ConditionLines(log, state.code[1].node_ref)) = 2
  /\ Cardinality(EmissionLines(log, state.code[1].node_ref)) = 2

\* The time `runtime` is in the window of the monitor of n, from its start
\* deadline to its stop deadline; a timer of n is outstanding.
InWindow(runtime, n) == runtime >= start_max_ms(n) /\ runtime < stop_min_ms(n)
Outstanding(n) == start_timer[n] # None \/ stop_timer[n] # None
NotMaintained == "subcondition not maintained"

\* The main thread is in the _monitor_completed that notify_condition calls
\* for a condition found false inside its window.
FailingNotMaintained == main.failure_message = NotMaintained

\* Timer.cancel() was called for the Timer of handle t, if any: it does not
\* wait for its interval any more.
CancelCalled(t) == (t # None /\ t <= Len(timers')) => timers'[t].st \notin {"created", "waiting"}

MonitorCancelled(n) ==
  /\ main.pc = "monitor_stop" /\ main.mc_node = n /\ main.succeeded
  /\ stop_timer[n] # None /\ main' # main
MonitorFailedBy(n) ==
  \/ main.pc = "monitor_failed" /\ main.mc_node = n /\ main' # main
  \/ \E t \in 1..Len(timers) :
       /\ timers[t].st = "monitor_failed" /\ timers[t].node = n
       /\ main' = main /\ (t > Len(timers') \/ timers'[t].st # "monitor_failed")
MonitorCompleted(n) ==
  \E t \in 1..Len(timers) :
    /\ timers[t].st = "monitor_stop" /\ timers[t].node = n
    /\ timers[t].kind = "stop" /\ timers[t].succeeded
    /\ main' = main /\ (t > Len(timers') \/ timers'[t].st # "monitor_stop")

\* C24: when a monitor ends, no timer of the condition is outstanding and
\* condition_met holds the terminal value: true after Completed, false after
\* Failed and after Cancelled.
C24_MonitorEndsAtTerminalValue ==
  [][\A n \in ConditionNodes :
       /\ (MonitorCancelled(n) \/ MonitorFailedBy(n) \/ MonitorCompleted(n)) =>
            (start_timer'[n] = None /\ stop_timer'[n] = None)
       /\ MonitorCompleted(n) => condition_met'[n]
       /\ MonitorFailedBy(n) => ~condition_met'[n]
       /\ MonitorCancelled(n) => ~condition_met'[n]]_vars

\* The main thread, in notify_ancestor_condition(True) of the subcondition
\* sub, sets up its monitor.
Arms(sub) ==
  /\ main.pc = "subconditions" /\ main' # main
  /\ start_timer[sub] = None /\ start_timer'[sub] # None

\* The main thread calls notify_ancestor_condition(True) of sub.
NotifiesTrue(sub) ==
  /\ main.pc = "subconditions" /\ main' # main
  /\ main.sub <= Len(find_subconditions(config_tree, main.node))
  /\ find_subconditions(config_tree, main.node)[main.sub] = sub
  /\ condition_met[main.node]

\* C25: a monitor is armed only by a fresh parent-true edge, the parent's
\* condition_met going from false to true: an evaluation of the parent that
\* leaves it true creates no timers and does not reset monitor_init_time_ms;
\* and while timers are outstanding a parent-true notification leaves the
\* timers and monitor_init_time_ms as they are.
C25_ArmedOnlyByParentTrueEdge ==
  [][\A sub \in ConditionNodes :
       /\ Arms(sub) => (condition_met[main.node] /\ ~main.was_met)
       /\ (NotifiesTrue(sub) /\ main.was_met) =>
            /\ start_timer'[sub] = start_timer[sub]
            /\ stop_timer'[sub] = stop_timer[sub]
            /\ monitor_init_time_ms'[sub] = monitor_init_time_ms[sub]
       /\ (NotifiesTrue(sub) /\ Outstanding(sub)) =>
            /\ start_timer'[sub] = start_timer[sub]
            /\ stop_timer'[sub] = stop_timer[sub]
            /\ monitor_init_time_ms'[sub] = monitor_init_time_ms[sub]
            /\ timers' = timers]_vars

\* The conditions that have n as a child of a block of one of their sibling
\* wrappers.
Governors(n) ==
  LET block == config_tree[n].parent
  IN IF block = None \/ config_tree[block].node_type # NODE_BLOCK THEN {}
     ELSE {c \in ConditionNodes :
             config_tree[c].parent = config_tree[config_tree[block].parent].parent}

\* n is a subcondition of the condition p: a condition node of a block of a
\* wrapper that is a sibling of p, or of such a condition node in turn.
RECURSIVE Governs(_, _)
Governs(p, n) ==
  \/ p \in Governors(n)
  \/ \E g \in Governors(n) : Governs(p, g)

\* The loop of notify_condition over the subconditions has ended.
SubconditionsNotified ==
  /\ main.pc = "subconditions"
  /\ main.sub > Len(find_subconditions(config_tree, main.node))

\* C26: when the truth of a condition has been recorded, every subcondition
\* of it, in every block of a sibling wrapper and through nested wrappers,
\* has received the parent event: after `parent became true` its monitor has
\* been set up, now or before.
C26_EverySubconditionNotified ==
  (SubconditionsNotified /\ condition_met[main.node]) =>
    \A n \in ConditionNodes :
      Governs(main.node, n) => monitor_init_time_ms[n] # -1

\* The condition node n has no monitor: handle_condition found no start and
\* stop pair and left both times at -1.
Unmonitored(n) ==
  config_tree[n].start_time_ms = -1 /\ config_tree[n].stop_time_ms = -1

\* A monitor failure message of the node n is in the log.
FailureLogged(n) ==
  \E i \in 1..Len(log) :
    \/ log[i] = LogError("condition not met by 'start' time", n)
    \/ log[i] = LogError(NotMaintained, n)

\* C27: a subcondition without start/stop parameters is never armed: it has
\* no timers, and no monitor failure message is logged for it.
C27_UnmonitoredNeverArmed ==
  \A n \in ConditionNodes :
    (Unmonitored(n) /\ \E p \in ConditionNodes : Governs(p, n)) =>
      /\ start_timer[n] = None /\ stop_timer[n] = None
      /\ ~FailureLogged(n)

\* The evaluation that notify_condition is ending changed the truth of its
\* condition.
TruthChanged == condition_met[main.node] # main.was_met

\* notify_condition ends for the condition that is sequence-next of s.
SequenceNextEvaluated(s) ==
  /\ main.pc = "subconditions" /\ main'.pc = "ancestors"
  /\ condition_get_sequence_grandparent(config_tree, main.node) = s
  /\ condition_is_sequence_next(config_tree, next_grandchild_index, main.node)

\* C28: the next_grandchild_index of a sequence advances when, and only
\* when, the truth of the sequence-next condition changes: an evaluation
\* that leaves condition_met of that condition as it was does not advance it.
C28_IndexAdvancesOnTruthChange ==
  [][\A s \in SequenceNodes :
       /\ next_grandchild_index'[s] # next_grandchild_index[s] =>
            (SequenceNextEvaluated(s) /\ TruthChanged)
       /\ (SequenceNextEvaluated(s) /\ TruthChanged) =>
            next_grandchild_index'[s] # next_grandchild_index[s]]_vars

\* The position, among the blocks of its wrapper, of the block that holds
\* the condition node n (1 for the first block).
BlockPosition(n) ==
  LET block == config_tree[n].parent
      blocks == config_tree[config_tree[block].parent].children
  IN CHOOSE k \in 1..Len(blocks) : blocks[k] = block

\* The conditions of the blocks of the sequence s that come before the block
\* of the condition n.
PriorConditions(s, n) ==
  {c \in ConditionNodes :
     /\ condition_get_sequence_grandparent(config_tree, c) = s
     /\ BlockPosition(c) < BlockPosition(n)}

\* C29: in a sequence the condition of a block after the first is executed
\* only after the conditions of all blocks before it were evaluated true; a
\* prior condition that was only evaluated false does not unblock it.
C29_SequenceBlockAfterPriorMet ==
  \A s \in SequenceNodes :
    (/\ main.pc = "notify_condition"
     /\ condition_get_sequence_grandparent(config_tree, main.node) = s) =>
      \A c \in PriorConditions(s, main.node) : condition_met[c]

\* The nodes above n on the path to the root.
RECURSIVE Enclosing(_)
Enclosing(n) ==
  IF config_tree[n].parent = None THEN {}
  ELSE {config_tree[n].parent} \cup Enclosing(config_tree[n].parent)

\* The conditions that govern n: the condition nodes that are siblings of a
\* parallel or sequence wrapper enclosing n.
GoverningConditions(n) ==
  {c \in ConditionNodes :
     \E w \in Enclosing(n) :
       /\ config_tree[w].node_type \in WRAPPER_KEYWORDS
       /\ config_tree[c].parent = config_tree[w].parent}

MainSleepsInDelayedEmit ==
  /\ main.pc = "replay_sleep"
  /\ Replayed.signals[main.i].direction = DIRECTION_OUT
  /\ now < main.wake

\* C31: a delayed emit never blocks the main dispatcher: the delay of a
\* delayed emit, of a rule or of an outgoing entry of a replayed log, is
\* never waited for by the main thread; and the emission happens only after
\* the delay has elapsed.
C31_DelayedEmitNeverBlocks ==
  /\ ~MainSleepsInDelayedEmit
  /\ \A e \in 1..Len(threads) :
       threads[e].pc \in {"emit_log", "emit_send", "emit_update"} =>
         now >= threads[e].wake
  /\ (main.ret = "replay" /\ main.pc \in {"emit_log", "emit_send", "emit_update"}) =>
       now >= main.wake

\* The rule at hand is executed and its condition has a value.
RuleEvaluated ==
  /\ RuleStep /\ ~RuleGated
  /\ Eval(state.code[RuleAtIdx].expr, _undot_variables(variables)).k = "ok"

\* The program ended in State.__init__, before anything was received, with
\* the ValueError of compile.
CompileRaised ==
  main.pc = "crashed" /\ main.raised = "ValueError" /\ received = 0

\* C32: disabling condition-check logging only suppresses the `condition:`
\* lines: the program runs as it does with the logging enabled, and a rule
\* whose condition was evaluated records the truth of its condition (from
\* where the flags, the monitors, the sequence indices and the emissions
\* follow) whatever the setting.
C32_NoLogOnlySuppressesLines ==
  /\ [](~CompileRaised)
  /\ [][RuleEvaluated =>
          /\ main'.pc = "notify_condition"
          /\ main'.node = RuleNode
          /\ main'.result = Truthy(Eval(state.code[RuleAtIdx].expr,
                                        _undot_variables(variables)).v)]_vars

\* The conditions under the sequence s that are sequence-next.
SequenceNext(s) ==
  {c \in ConditionNodes :
     /\ condition_get_sequence_grandparent(config_tree, c) = s
     /\ condition_is_sequence_next(config_tree, next_grandchild_index, c)}

\* C33: of every sequence, in every state, exactly one condition is
\* sequence-next, the condition of the block at next_grandchild_index,
\* whatever else that block holds: the sequence is never blocked for good.
C33_ExactlyOneSequenceNext ==
  \A s \in SequenceNodes :
    /\ Cardinality(SequenceNext(s)) = 1
    /\ \A c \in SequenceNext(s) :
         config_tree[c].parent =
           config_tree[s].children[next_grandchild_index[s] + 1]

\* The condition lines, in the log of the signal at hand, of the conditions
\* of the sequence s: one for every execution of one of its conditions.
ExecutedOf(s) ==
  {i \in 1..Len(log) :
     /\ log[i].k = "condition"
     /\ condition_get_sequence_grandparent(config_tree, log[i].node) = s}

\* C34: the processing of one received signal executes at most one condition
\* of a sequence, and so advances its next_grandchild_index by at most one
\* step, also when consecutive blocks reference the same signal.
C34_OneSequenceStepPerSignal ==
  \A s \in SequenceNodes : Cardinality(ExecutedOf(s)) <= 1

\* C35: the next_grandchild_index of every sequence starts at 0, is always
\* at least 0 and less than the number of blocks of the sequence, and
\* changes only by +1 or from the last block back to 0.
C35_IndexWithinBlocks ==
  /\ \A s \in SequenceNodes : next_grandchild_index[s] = 0
  /\ [](\A s \in SequenceNodes :
          next_grandchild_index[s] \in 0..(Len(config_tree[s].children) - 1))
  /\ [][\A s \in SequenceNodes :
          \/ next_grandchild_index'[s] = next_grandchild_index[s]
          \/ next_grandchild_index'[s] = next_grandchild_index[s] + 1
          \/ /\ next_grandchild_index[s] = Len(config_tree[s].children) - 1
             /\ next_grandchild_index'[s] = 0]_vars

\* The condition of the last block of a sequence has just been evaluated:
\* the index is back at 0.
C35_Witness ==
  /\ main.pc = "ancestors"
  /\ \E s \in SequenceNodes :
       /\ condition_get_sequence_grandparent(config_tree, main.node) = s
       /\ BlockPosition(main.node) = Len(config_tree[s].children)
       /\ Len(config_tree[s].children) > 1
       /\ next_grandchild_index[s] = 0

\* The engine is idle between two receives: the main thread is about to call
\* ipc_obj.receive() and no delayed emit is in the middle of emit().
Idle ==
  /\ main.pc = "receive"
  /\ \A e \in 1..Len(threads) : threads[e].pc \in {"sleep", "finished"}

\* The value of the expression of the condition n under the State.
ExpressionOf(n) ==
  Eval(state.code[config_tree[n].rule].expr, _undot_variables(variables))

\* C36: for a condition without monitor parameters and without a sequence
\* grandparent, whenever the engine is idle and the State holds every signal
\* the condition references, condition_met is the value of the expression
\* of the condition under the State: the flag never goes stale.
C36_FlagEqualsExpressionWhenIdle ==
  \A n \in ConditionNodes :
    (/\ Idle
     /\ Unmonitored(n)
     /\ condition_get_sequence_grandparent(config_tree, n) = None
     /\ \A k \in 1..Len(config_tree[n].signals) :
          Has(variables, config_tree[n].signals[k])
     /\ ExpressionOf(n).k = "ok") =>
      condition_met[n] = Truthy(ExpressionOf(n).v)

\* C37: whenever the monitor timers of a subcondition are outstanding, the
\* condition_met flag of every ancestor condition of it is true (stated of
\* the states between two dispatches): a grandchild is not armed by its
\* grandparent becoming true while its direct parent is not met.
C37_ArmedOnlyUnderMetAncestors ==
  \A n \in ConditionNodes :
    (main.pc = "receive" /\ Outstanding(n)) =>
      \A a \in GoverningConditions(n) : condition_met[a]

\* The main thread takes a step of the dispatch of the signal it received.
MainDispatches ==
  /\ main' # main
  /\ \/ InDispatchStep
     \/ main.pc \in {"update_state", "rule", "notify_condition", "condition_log"}
     \/ main.pc \in {"emit_log", "emit_send", "emit_update"} /\ main.ret = "rule"

\* The expression of the condition n references the signal.
References(n, signal) ==
  \E k \in 1..Len(config_tree[n].signals) : config_tree[n].signals[k] = signal

\* C38: the dispatch of a received signal S changes condition_met only of
\* conditions whose expression references S, and next_grandchild_index only
\* of sequences that hold such a condition; when no condition references S
\* the dispatch changes the State entry of S and nothing else.
C38_DispatchTouchesOnlyReferencingConditions ==
  [][MainDispatches =>
       /\ \A n \in ConditionNodes :
            condition_met'[n] # condition_met[n] => References(n, main.signal)
       /\ \A s \in SequenceNodes :
            next_grandchild_index'[s] # next_grandchild_index[s] =>
              \E c \in ConditionNodes :
                /\ condition_get_sequence_grandparent(config_tree, c) = s
                /\ References(c, main.signal)
       /\ (\A n \in ConditionNodes : ~References(n, main.signal)) =>
            /\ main.pc = "update_state" /\ main'.pc = "receive"
            /\ variables' = SetItem(variables, main.signal, main.value)
            /\ UNCHANGED <<condition_met, monitor_init_time_ms, start_timer,
                           stop_timer, next_grandchild_index, timers, threads,
                           ipc_sent>>]_vars

\* With the subclauses rules, of the condition over wipers: lights = False
\* was received and dispatched, a signal that no condition references, and
\* the flag that a dispatch of wipers had set is as it was.
C38_Witness ==
  /\ args.rules = "subclauses" /\ main.pc = "receive"
  /\ Has(variables, lights) /\ Get(variables, lights) = VBool(FALSE)
  /\ \E n \in ConditionNodes : condition_met[n]

\* The State as the condition n may see it: the signals that its expression
\* references, each under its undotted name.
ReferencedState(n) ==
  LET held == {k \in 1..Len(config_tree[n].signals) :
                 Has(variables, config_tree[n].signals[k])}
  IN [name \in {Undot(config_tree[n].signals[k]) : k \in held} |->
        Get(variables,
            config_tree[n].signals[CHOOSE k \in held :
                                     Undot(config_tree[n].signals[k]) = name])]

\* C39: the outcome of the execution of a rule, its truth value and whether
\* it is skipped, is that of its expression under the signals that the
\* condition references: a signal of another name has no part in it, also
\* when the two names are the same once '.' is replaced by '_'.
C39_OutcomeDependsOnReferencedSignals ==
  [][(RuleStep /\ ~RuleGated) =>
       LET expr == state.code[RuleAtIdx].expr
           outcome == Eval(expr, ReferencedState(RuleNode))
       IN /\ outcome.k = "ok" =>
               /\ main'.pc = "notify_condition"
               /\ main'.result = Truthy(outcome.v)
          /\ outcome.k = "NameError" => main'.pc # "notify_condition"]_vars

\* The quit signal, or the line `quit`, has been received: the main thread
\* has left run().
QuitReceived ==
  \/ main.pc = "exited"
  \/ main.pc = "crashed" /\ main.signal = quit

\* C40: after the quit signal has been received nothing is sent to the IPC
\* sink any more and the State no longer changes: the delayed emits that
\* still wait for their delay and the monitor timers that are outstanding
\* do not act after the shutdown.
C40_NothingActsAfterQuit ==
  [][QuitReceived => UNCHANGED <<ipc_sent, variables, condition_met>>]_vars

====
